---- MODULE Spec2Model ----
(***************************************************************************)
(* A model of scripts/tinymce_typer.py: one run of TinyMCETyper.run, from  *)
(* browser setup to the end of delivery and verification.                  *)
(*                                                                         *)
(* Python strings are sequences of one-character strings, so that the      *)
(* formatters (str.replace, the per-character loops) and the length tests  *)
(* act on the same characters as in the program.  The browser, the         *)
(* clipboard and the session file are the environment: every call into     *)
(* them either has its documented effect or raises.                        *)
(***************************************************************************)
EXTENDS Integers, Sequences, FiniteSets, TLC

(***************************************************************************)
(* Bounds of the model.                                                    *)
(***************************************************************************)
\* the longest content buffer of the typing-level specification SpecTyping
MaxLen == 3
\* the longest content buffer of the run-level specification Spec
MaxRunLen == 2
\* the largest --batch-size drawn
MaxBatchSize == 2
\* the longest content buffer of the cadence-level specification SpecCadence
MaxCadenceLen == 14
\* the most frames of a page
MaxFrames == 2

\* the most files of --files
MaxFiles == 2

(***************************************************************************)
(* Program constants.                                                      *)
(***************************************************************************)
\* type_content saves the session when current_pos % 100 == 0
SaveEvery == 100
\* type_content_batched saves when progress % (batch_size * 5) == 0
BatchSaveFactor == 5
\* try_clipboard_paste: len(editor_content) > 10
MinPasteLen == 10

(***************************************************************************)
(* Strings.                                                                *)
(***************************************************************************)
NL == "\n"
SP == " "
BR == <<"<", "b", "r", ">">>
NBSP == <<"&", "n", "b", "s", "p", ";">>
\* U+00A0, what a browser renders &nbsp; as; str.split treats it as whitespace
NbspChar == "~"

\* s[a:b] of Python, 0-based; a negative index counts from the end
SliceIndex(s, k) ==
    IF k < 0 THEN (IF Len(s) + k < 0 THEN 0 ELSE Len(s) + k)
    ELSE IF k > Len(s) THEN Len(s) ELSE k

Slice(s, a, b) ==
    LET lo == SliceIndex(s, a)
        hi == SliceIndex(s, b)
    IN  IF lo >= hi THEN <<>> ELSE SubSeq(s, lo + 1, hi)

StartsWith(s, p) == Len(s) >= Len(p) /\ SubSeq(s, 1, Len(p)) = p

EndsWith(s, p) == Len(s) >= Len(p) /\ SubSeq(s, Len(s) - Len(p) + 1, Len(s)) = p

\* p in s
RECURSIVE Contains(_, _)
Contains(s, p) ==
    IF Len(s) < Len(p) THEN FALSE
    ELSE StartsWith(s, p) \/ Contains(Tail(s), p)

\* s.replace(old, new) for a non-empty old: leftmost, non-overlapping
RECURSIVE Replace(_, _, _)
Replace(s, old, new) ==
    IF Len(s) < Len(old) THEN s
    ELSE IF StartsWith(s, old)
         THEN new \o Replace(SubSeq(s, Len(old) + 1, Len(s)), old, new)
         ELSE <<Head(s)>> \o Replace(Tail(s), old, new)

\* the bulk formatter: s.replace('\n', '<br>').replace('  ', '&nbsp;&nbsp;')
FormatBulk(s) == Replace(Replace(s, <<NL>>, BR), <<SP, SP>>, NBSP \o NBSP)

\* type_content, the HTML of one character, given the character before it in
\* the remaining content (<<>> when there is none: content[i-1:i] at i = 0)
FormatChar(char, before) ==
    IF char = NL THEN BR
    ELSE IF char = SP /\ before = <<SP>> THEN NBSP
    ELSE Replace(Replace(<<char>>, <<"'">>, <<"\\", "'">>), <<"\"">>, <<"\\", "\"">>)

BatchCharDropsNewline(formatted_batch, char) ==
    IF char = NL THEN formatted_batch
    ELSE IF char = SP /\ formatted_batch # <<>>
              /\ formatted_batch[Len(formatted_batch)] = SP
         THEN formatted_batch \o <<"&", "n", "b", "s", "p", ";">>
    ELSE formatted_batch \o <<char>>

\* type_content_batched, the HTML of one character appended to formatted_batch
BatchChar(formatted_batch, char) ==
    IF char = NL THEN formatted_batch \o BR
    ELSE IF char = SP /\ EndsWith(formatted_batch, <<SP>>) THEN formatted_batch \o NBSP
    ELSE formatted_batch \o <<char>>

\* type_content_batched, the inner loop over a batch
RECURSIVE FormatBatchFrom(_, _)
FormatBatchFrom(formatted_batch, batch) ==
    IF batch = <<>> THEN formatted_batch
    ELSE FormatBatchFrom(BatchChar(formatted_batch, Head(batch)), Tail(batch))

FormatBatch(batch) == FormatBatchFrom(<<>>, batch)

\* ' '.join(s.split()): whitespace runs collapsed to one space, ends trimmed
Whitespace == {SP, NL, NbspChar}

RECURSIVE JoinSplitFrom(_, _, _)
JoinSplitFrom(s, out, gap) ==
    IF s = <<>> THEN out
    ELSE IF Head(s) \in Whitespace
         THEN JoinSplitFrom(Tail(s), out, out # <<>>)
         ELSE JoinSplitFrom(Tail(s),
                            out \o (IF gap THEN <<SP>> ELSE <<>>) \o <<Head(s)>>,
                            FALSE)

Normalize(s) == JoinSplitFrom(s, <<>>, FALSE)

(***************************************************************************)
(* The browser.  An editor surface holds its innerHTML.  A paste of        *)
(* clipboard text inserts the text itself, never markup: each line becomes *)
(* a paragraph and the characters & < > are escaped.                       *)
(***************************************************************************)
EscapeChar(c) ==
    IF c = "&" THEN <<"&", "a", "m", "p", ";">>
    ELSE IF c = "<" THEN <<"&", "l", "t", ";">>
    ELSE IF c = ">" THEN <<"&", "g", "t", ";">>
    ELSE <<c>>

P_OPEN == <<"<", "p", ">">>
P_CLOSE == <<"<", "/", "p", ">">>

\* the innerHTML after Ctrl+V of `text` into an emptied editor
RECURSIVE PasteHtmlFrom(_, _)
PasteHtmlFrom(text, line) ==
    IF text = <<>> THEN P_OPEN \o line \o P_CLOSE
    ELSE IF Head(text) = NL
         THEN P_OPEN \o line \o P_CLOSE \o PasteHtmlFrom(Tail(text), <<>>)
         ELSE PasteHtmlFrom(Tail(text), line \o EscapeChar(Head(text)))

PasteHtml(text) == IF text = <<>> THEN <<>> ELSE PasteHtmlFrom(text, <<>>)

\* the line break TinyMCE keeps in an empty paragraph
BOGUS_BR ==
    <<"<", "b", "r", " ", "d", "a", "t", "a", "-", "m", "c", "e", "-", "b", "o", "g", "u", "s", "=", "\"",
      "1", "\"", ">">>

\* the innerHTML of a TinyMCE body that holds no text: one empty paragraph
EmptyBody == P_OPEN \o BOGUS_BR \o P_CLOSE

\* what editor.clear() and Ctrl+V may leave in the editor: the pasted text, or,
\* when the paste does not land, nothing or the empty body
PasteOutcomes(text) == {<<>>, EmptyBody, PasteHtml(text)}

\* the text a browser shows for an innerHTML: <br> and the end of a paragraph
\* break the line, entities stand for their characters
RECURSIVE Render(_)
Render(html) ==
    IF html = <<>> THEN <<>>
    ELSE IF StartsWith(html, BR) THEN <<NL>> \o Render(SubSeq(html, 5, Len(html)))
    ELSE IF StartsWith(html, BOGUS_BR)
         THEN <<NL>> \o Render(SubSeq(html, Len(BOGUS_BR) + 1, Len(html)))
    ELSE IF StartsWith(html, NBSP) THEN <<NbspChar>> \o Render(SubSeq(html, 7, Len(html)))
    ELSE IF StartsWith(html, P_OPEN) THEN Render(SubSeq(html, 4, Len(html)))
    ELSE IF StartsWith(html, P_CLOSE) THEN <<NL>> \o Render(SubSeq(html, 5, Len(html)))
    ELSE IF StartsWith(html, EscapeChar("&")) THEN <<"&">> \o Render(SubSeq(html, 6, Len(html)))
    ELSE IF StartsWith(html, EscapeChar("<")) THEN <<"<">> \o Render(SubSeq(html, 5, Len(html)))
    ELSE IF StartsWith(html, EscapeChar(">")) THEN <<">">> \o Render(SubSeq(html, 5, Len(html)))
    ELSE <<Head(html)>> \o Render(Tail(html))

(***************************************************************************)
(* Inputs.                                                                 *)
(***************************************************************************)
RECURSIVE StringsUpTo(_, _)
StringsUpTo(alphabet, n) ==
    IF n = 0 THEN {<<>>}
    ELSE LET shorter == StringsUpTo(alphabet, n - 1)
         IN  shorter \cup {<<c>> \o s : c \in alphabet, s \in {t \in shorter : Len(t) = n - 1}}

TextAlphabet == {"a", SP, NL, "'", "\""}
RunAlphabet == {"a", SP, NL}

TextContents == StringsUpTo(TextAlphabet, MaxLen)
RunContents == StringsUpTo(RunAlphabet, MaxRunLen)
\* payloads that already hold markup
MarkupContents == {BR, <<"a">> \o BR \o <<"a">>, P_OPEN \o <<"a">> \o P_CLOSE}
CadenceContents == {[k \in 1 .. n |-> "a"] : n \in 0 .. MaxCadenceLen}

Urls == {"u1", "u2"}
Files == {"f1", "f2"}

\* the files that --files may name
ListedFiles == {"g1", "g2"}

\* a file on disk: it can be opened and read as UTF-8 and holds `text`, or not
FileValues ==
    {[exists |-> TRUE, text |-> t] : t \in {<<>>, <<"a">>, <<"b", "\n">>}}
        \cup {[exists |-> FALSE, text |-> <<>>]}

\* no such file on disk
NoFiles == [f \in ListedFiles |-> [exists |-> FALSE, text |-> <<>>]]

\* --file-separator: the default and another
Separators == {<<"\n", "\n">>, <<"-">>}
BatchSizes == 1 .. MaxBatchSize

\* what the user may type at a y/n prompt
Responses == {"y", "Y", "n", "yes"}

\* str.lower
Lower(response) == IF response = "Y" THEN "y" ELSE response

\* a frame of the page, by the selectors of find_editor that match it:
\* "tinymce_ifr" is matched by iframe#tinymce_ifr and by iframe[id$='_ifr'],
\* "ifr" by iframe[id$='_ifr'] alone, "mce" by iframe[id$='_ifr'] and by
\* div.mce-edit-area iframe, "cke" by iframe.cke_wysiwyg_frame
FrameKinds == {"absent", "tinymce_ifr", "ifr", "mce", "cke"}

\* the frames of a page, in document order
PageFrame == <<"frame1", "frame2", "frame3">>

\* a page: its frames, its .ql-editor element ("editable" when it carries
\* contenteditable='true', as Quill sets it) and one more contenteditable
\* element of the document
Pages ==
    [frame : [1 .. MaxFrames -> FrameKinds],
     quill : {"absent", "editable", "plain"},
     div : BOOLEAN]

NoPage == [frame |-> [k \in 1 .. MaxFrames |-> "absent"], quill |-> "absent",
           div |-> FALSE]

\* the command line: url and file are only ever compared for equality with the
\* stored record (load_session), so one current target stands for all
Flags ==
    {a \in [url : {"u1"}, file : {"f1"}, no_session : BOOLEAN, reset : BOOLEAN,
            no_clipboard : BOOLEAN, batch : BOOLEAN, formatted : BOOLEAN,
            batch_size : BatchSizes, no_verification : BOOLEAN, encrypt : BOOLEAN,
            detect_multiple : {FALSE}, iframe_id : {""}, editor_id : {""},
            files : {<<>>}, file_separator : {<<"\n", "\n">>},
            use_existing : {FALSE}] :
        \* an option the run never reads keeps its default
        /\ (a.no_session => ~a.reset)
        /\ (~a.batch => a.batch_size = 1)
        /\ (a.batch => ~a.formatted)}

(***************************************************************************)
(* The session file.                                                       *)
(***************************************************************************)
\* a file value: what kind of text the file holds, the record the text stands
\* for, the passphrase an encrypted text was made with, and the field a JSON
\* text lacks ("none": it has url, file, progress and timestamp; "all": it is
\* JSON but not such an object)
NoSession ==
    [kind |-> "absent", url |-> "", file |-> "", progress |-> 0, key |-> "",
     missing |-> "none"]

\* save_session: session_data (the timestamp is not modelled)
SessionRecord(a, p) ==
    [kind |-> "plain", url |-> a.url, file |-> a.file, progress |-> p, key |-> "",
     missing |-> "none"]

\* the passphrases typed at a password prompt
Passwords == {"p1", "p2"}

\* encrypt_data: json.dumps, Fernet under the key derived from the password,
\* base64; the text is no longer JSON and opens under that password alone
EncryptData(data, pw) == [data EXCEPT !.kind = "encrypted", !.key = pw]

\* a decrypt_data that opens nothing
DecryptDataNever(encrypted_data, pw) == encrypted_data

\* decrypt_data: the JSON text back, or, when Fernet rejects the token
\* ("except Exception"), the text it was given
DecryptData(encrypted_data, pw) ==
    IF encrypted_data.kind = "encrypted" /\ encrypted_data.key = pw
    THEN [encrypted_data EXCEPT !.kind = "plain", !.key = ""]
    ELSE encrypted_data

\* the files an earlier run of the program, on any target and any earlier
\* version of the source file, can have left behind without --encrypt
StoredSessions ==
    {NoSession} \cup
    {[kind |-> "plain", url |-> u, file |-> f, progress |-> p, key |-> "",
      missing |-> "none"] :
        u \in Urls, f \in Files, p \in 0 .. MaxRunLen}

\* the fields load_session reads, and "all" for a JSON text that has none
SessionFields == {"url", "file", "progress", "timestamp", "all"}

\* every file load_session can meet: none, a record, a record that lacks a
\* field, an encrypted record, and a text that is neither JSON nor a token
SessionFiles ==
    StoredSessions
    \cup {[r EXCEPT !.missing = m] :
              r \in StoredSessions \ {NoSession}, m \in SessionFields}
    \cup {EncryptData(r, pw) : r \in StoredSessions \ {NoSession}, pw \in Passwords}
    \cup {[NoSession EXCEPT !.kind = "garbage"]}

(***************************************************************************)
(* State.                                                                  *)
(***************************************************************************)
VARIABLES
    args,               \* self.args
    fs_file,            \* the source file args.file on disk
    fs_files,           \* the files that args.files may name, on disk
    sessionFile,        \* tinymce_session.json on disk
    clipboard,          \* the system clipboard
    surface,            \* the editor element's innerHTML
    content,            \* self.content
    progress,           \* self.progress
    editor,             \* run's local `editor`: "none", or the element located
    pc,                 \* where the run stands
    start_pos,          \* type_content / type_content_batched: start_pos
    remaining,          \* ... their local `content` (the text still to type)
    i,                  \* ... the loop index
    current_html,       \* ... current_html
    original_clipboard, \* try_clipboard_paste: original_clipboard
    success,            \* run's local `success`
    verification,       \* run's local `verification`: "none", "true", "false"
    resumeOffered,      \* load_session asked "Resume from saved progress?"
    clipboard0,         \* the clipboard when try_clipboard_paste was entered
    password,           \* self.password, an attribute set at the first password prompt
    ENCRYPTION_AVAILABLE, \* the module global: the cryptography package was imported
    driver_frame,       \* the browsing context the driver is switched to ("top": the document)
    editor_home,        \* the browsing context that holds the element `editor` ("none": no element)
    page,               \* the page in the browser: its frames and editable elements
    editors,            \* run's local `editors`: what find_editor returned
    resumeAnswer,       \* load_session: the answer to the resume prompt ("none": not asked)
    trace               \* the strategies called, what they returned, the saves made

vars == <<args, fs_file, fs_files, sessionFile, clipboard, surface, content, progress, editor,
          pc, start_pos, remaining, i, current_html, original_clipboard, success,
          verification, resumeOffered, clipboard0, password, ENCRYPTION_AVAILABLE,
          resumeAnswer, driver_frame, editor_home, page, editors, trace>>

Unbound == [bound |-> FALSE, text |-> <<>>]
Bound(text) == [bound |-> TRUE, text |-> text]

\* self.password: not yet an attribute, or the passphrase typed
NoPassword == [bound |-> FALSE, text |-> ""]
Typed(pw) == [bound |-> TRUE, text |-> pw]

Event(ev, who, val) == [ev |-> ev, who |-> who, val |-> val]

\* TinyMCETyper.__init__
Constructed ==
    /\ progress = 0
    /\ content = <<>>
    /\ editor = "none"
    /\ editor_home = "none"
    /\ start_pos = 0
    /\ remaining = <<>>
    /\ i = 0
    /\ current_html = <<>>
    /\ original_clipboard = Unbound
    /\ success = FALSE
    /\ verification = "none"
    /\ resumeOffered = FALSE
    /\ clipboard0 = <<>>
    /\ password = NoPassword
    /\ resumeAnswer = "none"
    /\ driver_frame = "top"
    /\ page = NoPage
    /\ editors = <<>>
    /\ fs_files = NoFiles
    /\ trace = <<>>

\* a run without --encrypt, over a session file such a run has left: the
\* cryptography package is then never called
Init ==
    /\ args \in {a \in Flags : ~a.encrypt}
    /\ ENCRYPTION_AVAILABLE = TRUE
    /\ fs_file \in {[exists |-> TRUE, text |-> t] : t \in RunContents}
                   \cup {[exists |-> FALSE, text |-> <<>>]}
    /\ sessionFile \in StoredSessions
    /\ clipboard = <<"x">>
    /\ surface = <<>>
    /\ Constructed
    /\ pc = "setup"

(***************************************************************************)
(* save_session.  A write that fails (open or write raises) is caught and  *)
(* leaves the file as it was.                                              *)
(***************************************************************************)
SavedFile(a, p, pw, ok, file) ==
    IF ~ok THEN file
    ELSE IF a.encrypt /\ ENCRYPTION_AVAILABLE THEN EncryptData(SessionRecord(a, p), pw)
    ELSE SessionRecord(a, p)

\* save_session: "if not hasattr(self, 'password'): self.password = input(...)"
PasswordForSave(a, pw, typed) ==
    IF a.encrypt /\ ENCRYPTION_AVAILABLE /\ ~pw.bound THEN Typed(typed) ELSE pw

\* save_session, called with self.progress = p
SaveSession(p) ==
    \E ok \in BOOLEAN, typed \in Passwords :
        /\ (PasswordForSave(args, password, typed) = password => typed = "p1")
        /\ password' = PasswordForSave(args, password, typed)
        /\ sessionFile' = SavedFile(args, p, password'.text, ok, sessionFile)

\* save_session: "except Exception as e: print(...)": whether the write
\* succeeded or not, the caller goes on to its next statement
AfterSaveAborts(ok, next) == IF ok THEN next ELSE "finally"

AfterSave(ok, next) == next

\* save_session called with self.progress = p inside a loop of a typing
\* strategy, which then stands at `next`
SaveSessionThen(p, next) ==
    \E ok \in BOOLEAN, typed \in Passwords :
        /\ (PasswordForSave(args, password, typed) = password => typed = "p1")
        /\ password' = PasswordForSave(args, password, typed)
        /\ sessionFile' = SavedFile(args, p, password'.text, ok, sessionFile)
        /\ pc' = AfterSave(ok, next)

SaveEvent(p) == Event("save", "save_session", p)

\* try_clipboard_paste writes to the editor: by "innerHTML" (execute_script
\* setting arguments[0].innerHTML) or by "paste" (pyperclip.copy, then Ctrl+V)
WriteEvent(how) == Event("write", how, 0)

(***************************************************************************)
(* run, up to delivery.                                                    *)
(***************************************************************************)
\* setup_browser
SetupBrowser ==
    /\ pc = "setup"
    /\ \E ok \in BOOLEAN : pc' = IF ok THEN "load_content" ELSE "returned"
    /\ UNCHANGED <<args, fs_file, fs_files, sessionFile, clipboard, surface, content, progress,
                   editor, start_pos, remaining, i, current_html, original_clipboard,
                   success, verification, resumeOffered, clipboard0, trace,
                   password, ENCRYPTION_AVAILABLE, resumeAnswer, driver_frame,
                   page, editors, editor_home>>

\* run: "if self.args.files: ... else: if not self.load_content_from_file():
\* return False", and load_content_from_file
LoadContent ==
    /\ pc = "load_content"
    /\ args.files = <<>>
    /\ IF fs_file.exists
       THEN content' = fs_file.text /\ pc' = "navigate"
       ELSE content' = content /\ pc' = "returned"
    /\ UNCHANGED <<args, fs_file, fs_files, sessionFile, clipboard, surface, progress,
                   editor, start_pos, remaining, i, current_html, original_clipboard,
                   success, verification, resumeOffered, clipboard0, trace,
                   password, ENCRYPTION_AVAILABLE, resumeAnswer, driver_frame,
                   page, editors, editor_home>>

\* a load that looks at the first file of the list alone
FirstRead(names, fs) == fs[names[1]].exists

\* load_multiple_files: every file of the list is opened and read (a missing
\* file, an IOError and any other exception all end the call with False)
AllRead(names, fs) == \A k \in 1 .. Len(names) : fs[names[k]].exists

\* load_multiple_files: `contents` after the loop
FileContents(names, fs) == [k \in 1 .. Len(names) |-> fs[names[k]].text]

\* str.join: separator.join(contents)
RECURSIVE Join(_, _)
Join(contents, separator) ==
    IF contents = <<>> THEN <<>>
    ELSE IF Len(contents) = 1 THEN contents[1]
    ELSE contents[1] \o separator \o Join(Tail(contents), separator)

\* run: "if self.args.files: if not self.load_multiple_files(): return False",
\* and load_multiple_files
LoadMultipleFiles ==
    /\ pc = "load_content"
    /\ args.files # <<>>
    /\ IF AllRead(args.files, fs_files)
       THEN /\ content' = Join(FileContents(args.files, fs_files), args.file_separator)
            /\ pc' = "navigate"
       ELSE /\ content' = content
            /\ pc' = "returned"
    /\ UNCHANGED <<args, fs_file, fs_files, sessionFile, clipboard, surface, progress,
                   editor, start_pos, remaining, i, current_html, original_clipboard,
                   success, verification, resumeOffered, clipboard0, trace,
                   password, ENCRYPTION_AVAILABLE, resumeAnswer, driver_frame,
                   page, editors, editor_home>>

\* run: the page is loaded with driver.get, always in a new browser and, in an
\* existing one, with --force-navigation or when the user asks for it; a
\* driver.get that raises is caught by run's "except Exception"
Navigate ==
    /\ pc = "navigate"
    /\ \E get \in BOOLEAN, ok \in BOOLEAN :
        /\ (~args.use_existing => get)
        /\ (~get => ok)
        /\ trace' = IF get THEN Append(trace, Event("navigate", "run", 0)) ELSE trace
        /\ pc' = IF ok THEN "load_session" ELSE "finally"
    /\ UNCHANGED <<args, fs_file, fs_files, sessionFile, clipboard, surface, content,
                   progress, editor, start_pos, remaining, i, current_html,
                   original_clipboard, success, verification, resumeOffered, clipboard0,
                   password, ENCRYPTION_AVAILABLE, resumeAnswer, driver_frame,
                   page, editors, editor_home>>

\* a load_session that compares the url alone
SessionMatchesUrlOnly(a, stored) == stored.url = a.url

\* load_session: the stored record is for this run's url and file
SessionMatches(a, stored) == stored.url = a.url /\ stored.file = a.file

\* load_session: the file exists and json.loads rejects its text
AppearsEncrypted(stored) == stored.kind \in {"encrypted", "garbage"}

\* load_session: "if not hasattr(self, 'password'): self.password = input(...)"
PasswordForLoad(stored, pw, typed) ==
    IF AppearsEncrypted(stored) /\ ENCRYPTION_AVAILABLE /\ ~pw.bound
    THEN Typed(typed) ELSE pw

\* load_session: session_data when it reaches the match test: the record of a
\* JSON text, or of a text decrypt_data has opened; any other kind: load_session
\* has returned before the test
SessionData(stored, pw) ==
    IF AppearsEncrypted(stored) /\ ENCRYPTION_AVAILABLE THEN DecryptData(stored, pw)
    ELSE stored

\* load_session: the resume prompt is shown
ResumePrompted(a, stored) ==
    stored.kind = "plain" /\ stored.missing = "none" /\ SessionMatches(a, stored)
        /\ ~a.reset

\* an answer that resumes unless it is a no
ResumesUnlessNo(answer) == Lower(answer) # "n"

\* load_session: "if response.lower() != 'y'" does not hold
Resumes(answer) == Lower(answer) = "y"

\* an "except Exception" that keeps the count
OnLoadErrorKeep(p) == p

\* load_session, "except Exception": self.progress = 0
OnLoadError(p) == 0

\* load_session: self.progress when it returns, `stored` being a record with
\* all its fields
LoadedProgress(a, stored, response) ==
    IF stored.kind = "plain" /\ stored.missing = "none" /\ SessionMatches(a, stored)
    THEN IF a.reset THEN 0
         ELSE IF ~Resumes(response) THEN 0 ELSE stored.progress
    ELSE 0

\* load_session: self.progress when a subscript of session_data raises KeyError
\* (TypeError when the JSON text is not an object)
ProgressOnMissing(a, stored) ==
    IF stored.missing = "timestamp" /\ SessionMatches(a, stored)
    THEN OnLoadError(stored.progress)
    ELSE OnLoadError(0)

LoadSession ==
    /\ pc = "load_session"
    /\ IF args.no_session \/ sessionFile.kind = "absent"
       THEN UNCHANGED <<progress, resumeOffered, password, resumeAnswer>>
       ELSE \E typed \in Passwords, answer \in Responses :
            /\ (PasswordForLoad(sessionFile, password, typed) = password => typed = "p1")
            /\ password' = PasswordForLoad(sessionFile, password, typed)
            /\ LET session_data == SessionData(sessionFile, password'.text)
               IN  /\ resumeOffered' = ResumePrompted(args, session_data)
                   /\ (~resumeOffered' => answer = "n")
                   /\ resumeAnswer' = IF resumeOffered' THEN answer ELSE "none"
                   /\ progress' =
                        IF session_data.kind # "plain" THEN progress
                        ELSE IF session_data.missing # "none"
                             THEN ProgressOnMissing(args, session_data)
                             ELSE LoadedProgress(args, session_data, answer)
    /\ pc' = "locate"
    /\ UNCHANGED <<args, fs_file, fs_files, sessionFile, clipboard, surface, content,
                   editor, start_pos, remaining, i, current_html, original_clipboard,
                   success, verification, clipboard0, ENCRYPTION_AVAILABLE, trace,
                   driver_frame,
                   page, editors, editor_home>>

\* run: "if editor:"
HasEditorAlways(e) == TRUE

HasEditor(e) == e # "none"

\* find_and_focus_editor and the other locators: an editor element, or none
FindEditor ==
    /\ pc = "locate"
    /\ \E found \in BOOLEAN :
        /\ editor' = IF found THEN "body" ELSE "none"
        /\ editor_home' = IF found THEN driver_frame ELSE "none"
        /\ pc' = IF found THEN "deliver" ELSE "finally"
    /\ UNCHANGED <<args, fs_file, fs_files, sessionFile, clipboard, surface, content, progress,
                   start_pos, remaining, i, current_html, original_clipboard,
                   success, verification, resumeOffered, clipboard0, trace,
                   password, ENCRYPTION_AVAILABLE, resumeAnswer, driver_frame,
                   page, editors>>

\* run: "if editor: ... if not self.args.no_clipboard:"
RunDeliver ==
    /\ pc = "deliver"
    /\ HasEditor(editor)
    /\ IF ~args.no_clipboard
       THEN /\ pc' = "clip1"
            /\ clipboard0' = clipboard
            /\ trace' = Append(trace, Event("call", "try_clipboard_paste", 0))
       ELSE /\ pc' = "choose_typing"
            /\ UNCHANGED <<clipboard0, trace>>
    /\ UNCHANGED <<args, fs_file, fs_files, sessionFile, clipboard, surface, content, progress,
                   editor, start_pos, remaining, i, current_html, original_clipboard,
                   success, verification, resumeOffered,
                   password, ENCRYPTION_AVAILABLE, resumeAnswer, driver_frame,
                   page, editors, editor_home>>

(***************************************************************************)
(* try_clipboard_paste.                                                    *)
(***************************************************************************)
\* "if editor_content and len(editor_content) > 10"
PasteLanded(editor_content) ==
    editor_content # <<>> /\ Len(editor_content) > MinPasteLen

\* try_clipboard_paste returns r to run: "if clipboard_success: success = True"
ClipboardReturns(r) ==
    /\ success' = r
    /\ pc' = "choose_typing"

\* method 1: direct HTML insertion
ClipDirect ==
    /\ pc = "clip1"
    /\ original_clipboard' = Bound(clipboard)
    /\ surface' = FormatBulk(content)
    /\ IF PasteLanded(surface')
       THEN /\ ClipboardReturns(TRUE)
            /\ trace' = trace \o <<WriteEvent("innerHTML"),
                                   Event("ret", "try_clipboard_paste", 1)>>
       ELSE /\ pc' = "clip2"
            /\ trace' = Append(trace, WriteEvent("innerHTML"))
            /\ UNCHANGED success
    /\ UNCHANGED <<args, fs_file, fs_files, sessionFile, clipboard, content, progress, editor,
                   start_pos, remaining, i, current_html, verification, resumeOffered, clipboard0,
                   password, ENCRYPTION_AVAILABLE, resumeAnswer, driver_frame,
                   page, editors, editor_home>>

\* method 2: Ctrl+V of the formatted content
ClipPasteFormatted ==
    /\ pc = "clip2"
    /\ clipboard' = FormatBulk(content)
    /\ \E pasted \in PasteOutcomes(clipboard') : surface' = pasted
    /\ IF PasteLanded(surface')
       THEN /\ ClipboardReturns(TRUE)
            /\ trace' = trace \o <<WriteEvent("paste"),
                                   Event("ret", "try_clipboard_paste", 1)>>
       ELSE /\ pc' = "clip3"
            /\ trace' = Append(trace, WriteEvent("paste"))
            /\ UNCHANGED success
    /\ UNCHANGED <<args, fs_file, fs_files, sessionFile, content, progress, editor, start_pos,
                   remaining, i, current_html, original_clipboard, verification,
                   resumeOffered, clipboard0,
                   password, ENCRYPTION_AVAILABLE, resumeAnswer, driver_frame,
                   page, editors, editor_home>>

\* method 3: Ctrl+V of the plain content, formatted afterwards
ClipPastePlain ==
    /\ pc = "clip3"
    /\ clipboard' = content
    /\ \E pasted \in PasteOutcomes(clipboard') :
        IF PasteLanded(pasted)
        THEN /\ surface' = FormatBulk(pasted)
             /\ ClipboardReturns(TRUE)
             /\ trace' = trace \o <<WriteEvent("paste"), WriteEvent("innerHTML"),
                                    Event("ret", "try_clipboard_paste", 1)>>
        ELSE /\ surface' = pasted
             /\ pc' = "clip_fail"
             /\ trace' = Append(trace, WriteEvent("paste"))
             /\ UNCHANGED success
    /\ UNCHANGED <<args, fs_file, fs_files, sessionFile, content, progress, editor, start_pos,
                   remaining, i, current_html, original_clipboard, verification,
                   resumeOffered, clipboard0,
                   password, ENCRYPTION_AVAILABLE, resumeAnswer, driver_frame,
                   page, editors, editor_home>>

\* "All clipboard paste methods failed"
ClipGiveUp ==
    /\ pc = "clip_fail"
    /\ surface' = <<>>
    /\ clipboard' = original_clipboard.text
    /\ ClipboardReturns(FALSE)
    /\ trace' = Append(trace, Event("ret", "try_clipboard_paste", 0))
    /\ UNCHANGED <<args, fs_file, fs_files, sessionFile, content, progress, editor, start_pos,
                   remaining, i, current_html, original_clipboard, verification,
                   resumeOffered, clipboard0,
                   password, ENCRYPTION_AVAILABLE, resumeAnswer, driver_frame,
                   page, editors, editor_home>>

\* the calls of each step that may raise, and what the step has done by then
ClipRaisePoints(at) ==
    IF at = "clip1" THEN {"pyperclip.paste", "execute_script", "read"}
    ELSE IF at \in {"clip2", "clip3"} THEN {"clear", "send_keys"}
    ELSE {"clear"}

ClipSurfaceAt(at, point) ==
    IF point = "read" THEN FormatBulk(content)
    ELSE IF point = "send_keys" THEN <<>>
    ELSE surface

ClipClipboardAt(at, point) ==
    IF point = "send_keys"
    THEN (IF at = "clip2" THEN FormatBulk(content) ELSE content)
    ELSE clipboard

\* "except Exception": restore the clipboard if original_clipboard is bound
\* (a NameError in the handler is swallowed), return False
ClipRaise ==
    /\ pc \in {"clip1", "clip2", "clip3", "clip_fail"}
    /\ \E point \in ClipRaisePoints(pc) :
        /\ original_clipboard' =
               IF pc = "clip1"
               THEN (IF point = "pyperclip.paste" THEN Unbound ELSE Bound(clipboard))
               ELSE original_clipboard
        /\ surface' = ClipSurfaceAt(pc, point)
        /\ clipboard' = IF original_clipboard'.bound
                        THEN original_clipboard'.text
                        ELSE ClipClipboardAt(pc, point)
    /\ ClipboardReturns(FALSE)
    /\ trace' = trace \o (IF surface' = surface THEN <<>> ELSE <<WriteEvent("innerHTML")>>)
                     \o <<Event("raise", "try_clipboard_paste", 0),
                           Event("ret", "try_clipboard_paste", 0)>>
    /\ UNCHANGED <<args, fs_file, fs_files, sessionFile, content, progress, editor, start_pos,
                   remaining, i, current_html, verification, resumeOffered, clipboard0,
                   password, ENCRYPTION_AVAILABLE, resumeAnswer, driver_frame,
                   page, editors, editor_home>>

(***************************************************************************)
(* run: the typing strategies.                                             *)
(***************************************************************************)
\* run: "if self.args.batch: ... elif self.args.formatted: ... else: ..."
TypingStrategy(a) ==
    IF a.batch THEN "type_content_batched"
    ELSE IF a.formatted THEN "type_formatted_content"
    ELSE "type_content"

\* a run that goes on to typing whatever the clipboard attempt returned
NeedsTypingAlways(succeeded) == TRUE

\* run: "if not success:"
NeedsTyping(succeeded) == ~succeeded

ChooseTyping ==
    /\ pc = "choose_typing"
    /\ IF NeedsTyping(success)
       THEN /\ pc' = TypingStrategy(args)
            /\ trace' = Append(trace, Event("call", TypingStrategy(args), 0))
       ELSE /\ pc' = "after_delivery"
            /\ trace' = trace
    /\ UNCHANGED <<args, fs_file, fs_files, sessionFile, clipboard, surface, content, progress,
                   editor, start_pos, remaining, i, current_html, original_clipboard,
                   success, verification, resumeOffered, clipboard0,
                   password, ENCRYPTION_AVAILABLE, resumeAnswer, driver_frame,
                   page, editors, editor_home>>

\* a run that calls the typing strategy again when it has failed
TypingReturnsRetry(r) ==
    /\ success' = r
    /\ pc' = IF r THEN "after_delivery" ELSE "choose_typing"

\* a typing strategy returns r to run
TypingReturns(r) ==
    /\ success' = r
    /\ pc' = "after_delivery"

\* the resume prologue of type_content and type_content_batched: the surface
\* after it
ResumedSurface(text, start, before) ==
    IF start > 0
    THEN (IF Len(Slice(text, 0, start)) > 0 THEN FormatBulk(Slice(text, 0, start))
          ELSE before)
    ELSE <<>>

\* ... and the text left to type
RemainingText(text, start) ==
    IF start > 0 THEN Slice(text, start, Len(text)) ELSE text

\* type_content, up to the loop
TypeContentEnter ==
    /\ pc = "type_content"
    /\ start_pos' = progress
    /\ surface' = ResumedSurface(content, progress, surface)
    /\ remaining' = RemainingText(content, progress)
    /\ current_html' = <<>>
    /\ i' = 0
    /\ pc' = "type_loop"
    /\ UNCHANGED <<args, fs_file, fs_files, sessionFile, clipboard, content, progress, editor,
                   original_clipboard, success, verification, resumeOffered, clipboard0, trace,
                   password, ENCRYPTION_AVAILABLE, resumeAnswer, driver_frame,
                   page, editors, editor_home>>

\* type_content: "if current_pos % 100 == 0"
TypeSaveDue(current_pos) == current_pos % SaveEvery = 0

\* type_content, one turn of the loop
TypeContentChar ==
    /\ pc = "type_loop"
    /\ i < Len(remaining)
    /\ current_html' = current_html \o FormatChar(remaining[i + 1], Slice(remaining, i - 1, i))
    /\ surface' = current_html'
    /\ IF TypeSaveDue(start_pos + i)
       THEN /\ progress' = start_pos + i
            /\ SaveSessionThen(progress', pc)
            /\ trace' = Append(trace, SaveEvent(progress'))
       ELSE UNCHANGED <<progress, sessionFile, password, trace, pc>>
    /\ i' = i + 1
    /\ UNCHANGED <<args, fs_file, fs_files, clipboard, content, editor, start_pos, remaining,
                   original_clipboard, success, verification, resumeOffered, clipboard0,
                   ENCRYPTION_AVAILABLE, resumeAnswer, driver_frame,
                   page, editors, editor_home>>

\* a final update that forgets the resume offset
TypeFinalProgressNoOffset(start, total_chars) == total_chars

\* type_content: "self.progress = start_pos + total_chars"
TypeFinalProgress(start, total_chars) == start + total_chars

\* type_content, after the loop
TypeContentFinish ==
    /\ pc = "type_loop"
    /\ i >= Len(remaining)
    /\ progress' = TypeFinalProgress(start_pos, Len(remaining))
    /\ SaveSession(progress')
    /\ trace' = trace \o <<SaveEvent(progress'), Event("ret", "type_content", 1)>>
    /\ TypingReturns(TRUE)
    /\ UNCHANGED <<args, fs_file, fs_files, clipboard, surface, content, editor, start_pos,
                   remaining, i, current_html, original_clipboard, verification,
                   resumeOffered, clipboard0,
                   ENCRYPTION_AVAILABLE, resumeAnswer, driver_frame,
                   page, editors, editor_home>>

\* type_content, "except Exception": a browser call raised
TypeContentRaise ==
    /\ \/ pc = "type_content" /\ (progress = 0 \/ Len(Slice(content, 0, progress)) > 0)
       \/ pc = "type_loop" /\ i < Len(remaining)
    /\ SaveSession(progress)
    /\ trace' = trace \o <<Event("raise", "type_content", 0), SaveEvent(progress),
                           Event("ret", "type_content", 0)>>
    /\ TypingReturns(FALSE)
    /\ UNCHANGED <<args, fs_file, fs_files, clipboard, surface, content, progress, editor,
                   start_pos, remaining, i, current_html, original_clipboard,
                   verification, resumeOffered, clipboard0,
                   ENCRYPTION_AVAILABLE, resumeAnswer, driver_frame,
                   page, editors, editor_home>>

\* type_content_batched, up to the loop
BatchedEnter ==
    /\ pc = "type_content_batched"
    /\ start_pos' = progress
    /\ surface' = ResumedSurface(content, progress, surface)
    /\ remaining' = RemainingText(content, progress)
    /\ current_html' = surface'
    /\ i' = 0
    /\ pc' = "batch_loop"
    /\ UNCHANGED <<args, fs_file, fs_files, sessionFile, clipboard, content, progress, editor,
                   original_clipboard, success, verification, resumeOffered, clipboard0, trace,
                   password, ENCRYPTION_AVAILABLE, resumeAnswer, driver_frame,
                   page, editors, editor_home>>

\* type_content_batched: "if self.progress % (batch_size * 5) == 0"
BatchSaveDue(p, batch_size) == p % (batch_size * BatchSaveFactor) = 0

BatchEndShort(k, batch_size, total_chars) ==
    IF k + batch_size < total_chars THEN k + batch_size ELSE total_chars - 1

\* type_content_batched: end_pos
BatchEnd(k, batch_size, total_chars) ==
    IF k + batch_size < total_chars THEN k + batch_size ELSE total_chars

\* type_content_batched, one turn of the loop
BatchedStep ==
    /\ pc = "batch_loop"
    /\ i < Len(remaining)
    /\ LET end_pos == BatchEnd(i, args.batch_size, Len(remaining))
       IN  /\ current_html' = current_html \o FormatBatch(Slice(remaining, i, end_pos))
           /\ progress' = (start_pos + i) + (end_pos - i)
    /\ surface' = current_html'
    /\ IF BatchSaveDue(progress', args.batch_size)
       THEN /\ SaveSessionThen(progress', pc)
            /\ trace' = Append(trace, SaveEvent(progress'))
       ELSE UNCHANGED <<sessionFile, password, trace, pc>>
    /\ i' = i + args.batch_size
    /\ UNCHANGED <<args, fs_file, fs_files, clipboard, content, editor, start_pos, remaining,
                   original_clipboard, success, verification, resumeOffered, clipboard0,
                   ENCRYPTION_AVAILABLE, resumeAnswer, driver_frame,
                   page, editors, editor_home>>

\* type_content_batched, after the loop
BatchedFinish ==
    /\ pc = "batch_loop"
    /\ i >= Len(remaining)
    /\ progress' = TypeFinalProgress(start_pos, Len(remaining))
    /\ SaveSession(progress')
    /\ trace' = trace \o <<SaveEvent(progress'), Event("ret", "type_content_batched", 1)>>
    /\ TypingReturns(TRUE)
    /\ UNCHANGED <<args, fs_file, fs_files, clipboard, surface, content, editor, start_pos,
                   remaining, i, current_html, original_clipboard, verification,
                   resumeOffered, clipboard0,
                   ENCRYPTION_AVAILABLE, resumeAnswer, driver_frame,
                   page, editors, editor_home>>

\* type_content_batched, "except Exception": a browser call raised
BatchedRaise ==
    /\ \/ pc = "type_content_batched"
       \/ pc = "batch_loop" /\ i < Len(remaining)
    /\ SaveSession(progress)
    /\ trace' = trace \o <<Event("raise", "type_content_batched", 0), SaveEvent(progress),
                           Event("ret", "type_content_batched", 0)>>
    /\ TypingReturns(FALSE)
    /\ UNCHANGED <<args, fs_file, fs_files, clipboard, surface, content, progress, editor,
                   start_pos, remaining, i, current_html, original_clipboard,
                   verification, resumeOffered, clipboard0,
                   ENCRYPTION_AVAILABLE, resumeAnswer, driver_frame,
                   page, editors, editor_home>>

\* KeyboardInterrupt during the time.sleep that follows a character or a batch:
\* it is no Exception, so the strategy's handler does not run; run's
\* "except KeyboardInterrupt" prints and falls to the finally block
Interrupt ==
    /\ pc \in {"type_loop", "batch_loop"}
    /\ i > 0
    /\ trace' = Append(trace, Event("interrupt", TypingStrategy(args), 0))
    /\ pc' = "finally"
    /\ UNCHANGED <<args, fs_file, fs_files, sessionFile, clipboard, surface, content, progress,
                   editor, start_pos, remaining, i, current_html, original_clipboard,
                   success, verification, resumeOffered, clipboard0,
                   password, ENCRYPTION_AVAILABLE, resumeAnswer, driver_frame,
                   page, editors, editor_home>>

\* type_formatted_content: the content "appears to have HTML formatting"
LooksLikeHtml(text) ==
    /\ Contains(text, <<"<">>)
    /\ Contains(text, <<">">>)
    /\ \/ Contains(text, <<"<", "/", "p", ">">>)
       \/ Contains(text, <<"<", "b", "r">>)
       \/ Contains(text, <<"<", "d", "i", "v">>)

\* type_formatted_content: the innerHTML it sets
FormattedHtml(text) == IF LooksLikeHtml(text) THEN text ELSE FormatBulk(text)

TypeFormatted ==
    /\ pc = "type_formatted_content"
    /\ surface' = FormattedHtml(content)
    /\ trace' = Append(trace, Event("ret", "type_formatted_content", 1))
    /\ TypingReturns(TRUE)
    /\ UNCHANGED <<args, fs_file, fs_files, sessionFile, clipboard, content, progress, editor,
                   start_pos, remaining, i, current_html, original_clipboard,
                   verification, resumeOffered, clipboard0,
                   password, ENCRYPTION_AVAILABLE, resumeAnswer, driver_frame,
                   page, editors, editor_home>>

\* type_formatted_content, "except Exception": execute_script raised
TypeFormattedRaise ==
    /\ pc = "type_formatted_content"
    /\ trace' = trace \o <<Event("raise", "type_formatted_content", 0),
                           Event("ret", "type_formatted_content", 0)>>
    /\ TypingReturns(FALSE)
    /\ UNCHANGED <<args, fs_file, fs_files, sessionFile, clipboard, surface, content, progress,
                   editor, start_pos, remaining, i, current_html, original_clipboard,
                   verification, resumeOffered, clipboard0,
                   password, ENCRYPTION_AVAILABLE, resumeAnswer, driver_frame,
                   page, editors, editor_home>>

(***************************************************************************)
(* run, after delivery.                                                    *)
(***************************************************************************)
\* run: after "Typing completed successfully!", "if self.args.use_existing:"
\* the script goes on to its finally block, and otherwise it sleeps in
\* "while True: time.sleep(1)" until it is interrupted
AfterSuccess(a) == IF a.use_existing THEN "finally" ELSE "keep_open"

\* run: "if success: if not self.args.no_verification: ..."
AfterDelivery ==
    /\ pc = "after_delivery"
    /\ pc' = IF success /\ ~args.no_verification THEN "verify"
             ELSE IF success THEN AfterSuccess(args)
             ELSE "finally"
    /\ UNCHANGED <<args, fs_file, fs_files, sessionFile, clipboard, surface, content, progress,
                   editor, start_pos, remaining, i, current_html, original_clipboard,
                   success, verification, resumeOffered, clipboard0, trace,
                   password, ENCRYPTION_AVAILABLE, resumeAnswer, driver_frame,
                   page, editors, editor_home>>

\* verify_typed_content: "if expected_clean in actual_clean"
ContentFound(expected_content, actual_content) ==
    Contains(Normalize(actual_content), Normalize(expected_content))

\* difflib.SequenceMatcher: the length of the block of equal characters that
\* starts at a[x] and b[y] (0-based) and stays below ahi and bhi
RECURSIVE MatchLen(_, _, _, _, _, _)
MatchLen(a, b, x, y, ahi, bhi) ==
    IF x < ahi /\ y < bhi /\ a[x + 1] = b[y + 1]
    THEN 1 + MatchLen(a, b, x + 1, y + 1, ahi, bhi)
    ELSE 0

\* SequenceMatcher.find_longest_match(alo, ahi, blo, bhi) without junk: <<i, j, k>>
\* with k the greatest, then i the least, then j the least
FindLongestMatch(a, b, alo, ahi, blo, bhi) ==
    LET starts == (alo .. ahi - 1) \X (blo .. bhi - 1)
        size == [m \in starts |-> MatchLen(a, b, m[1], m[2], ahi, bhi)]
        sizes == {size[m] : m \in starts}
        k == CHOOSE v \in sizes : \A w \in sizes : v >= w
        firsts == {m[1] : m \in {n \in starts : size[n] = k}}
        x == CHOOSE v \in firsts : \A w \in firsts : v <= w
        seconds == {m[2] : m \in {n \in starts : size[n] = k /\ n[1] = x}}
        y == CHOOSE v \in seconds : \A w \in seconds : v <= w
    IN  IF starts = {} THEN <<alo, blo, 0>> ELSE <<x, y, k>>

\* SequenceMatcher.get_matching_blocks: the characters matched in all
RECURSIVE MatchingChars(_, _, _, _, _, _)
MatchingChars(a, b, alo, ahi, blo, bhi) ==
    LET m == FindLongestMatch(a, b, alo, ahi, blo, bhi)
    IN  IF m[3] = 0 THEN 0
        ELSE m[3] + MatchingChars(a, b, alo, m[1], blo, m[2])
                  + MatchingChars(a, b, m[1] + m[3], ahi, m[2] + m[3], bhi)

LowSimilarityBelow98(expected_clean, actual_clean) ==
    LET total == Len(expected_clean) + Len(actual_clean)
        matches == MatchingChars(expected_clean, actual_clean,
                                 0, Len(expected_clean), 0, Len(actual_clean))
    IN  total > 0 /\ 200 * matches < 98 * total

\* verify_typed_content: "similarity < 90", similarity being
\* SequenceMatcher(None, expected_clean, actual_clean).ratio() * 100, and
\* ratio() being 2 * matches / (len(a) + len(b)), or 1 when both are empty
LowSimilarity(expected_clean, actual_clean) ==
    LET total == Len(expected_clean) + Len(actual_clean)
        matches == MatchingChars(expected_clean, actual_clean,
                                 0, Len(expected_clean), 0, Len(actual_clean))
    IN  total > 0 /\ 200 * matches < 90 * total

\* verify_typed_content: what it returns; low_similarity is "similarity < 90"
Verified(a, expected_content, actual_content, low_similarity, response) ==
    IF ContentFound(expected_content, actual_content) THEN TRUE
    ELSE IF low_similarity /\ ~a.no_verification THEN Lower(response) # "y"
    ELSE FALSE

\* verify_typed_content: "Would you like to retry typing? (y/n): " is asked
RetryOffered(a, expected_content, actual_content, low_similarity) ==
    ~ContentFound(expected_content, actual_content)
        /\ low_similarity /\ ~a.no_verification

VerifyTypedContent ==
    /\ pc = "verify"
    /\ LET low_similarity == LowSimilarity(Normalize(content), Normalize(surface))
           offered == RetryOffered(args, content, surface, low_similarity)
       IN  /\ \E response \in Responses :
                /\ (~offered => response = "n")
                /\ verification' =
                      IF Verified(args, content, surface, low_similarity, response)
                      THEN "true" ELSE "false"
           /\ trace' = IF offered
                       THEN Append(trace, Event("prompt", "verify_typed_content", 0))
                       ELSE trace
    /\ pc' = AfterSuccess(args)
    /\ UNCHANGED <<args, fs_file, fs_files, sessionFile, clipboard, surface, content, progress,
                   editor, start_pos, remaining, i, current_html, original_clipboard,
                   success, resumeOffered, clipboard0,
                   password, ENCRYPTION_AVAILABLE, resumeAnswer, driver_frame,
                   page, editors, editor_home>>

\* verify_typed_content, "except Exception": reading the innerHTML raised
VerifyTypedContentRaise ==
    /\ pc = "verify"
    /\ verification' = "false"
    /\ trace' = Append(trace, Event("error", "verify_typed_content", 0))
    /\ pc' = AfterSuccess(args)
    /\ UNCHANGED <<args, fs_file, fs_files, sessionFile, clipboard, surface, content, progress,
                   editor, start_pos, remaining, i, current_html, original_clipboard,
                   success, resumeOffered, clipboard0,
                   password, ENCRYPTION_AVAILABLE, resumeAnswer, driver_frame,
                   page, editors, editor_home>>

\* Ctrl+C is pressed in the terminal: KeyboardInterrupt is raised in the
\* script, which sleeps at `where`
CtrlC(where) == Event("ctrl_c", where, 0)

\* run: the sleep loop after a successful delivery is left by a Ctrl+C, which
\* "except KeyboardInterrupt: print(...)" catches; the finally block follows
KeepOpen ==
    /\ pc = "keep_open"
    /\ trace' = Append(trace, CtrlC("keep_open"))
    /\ pc' = "finally"
    /\ UNCHANGED <<args, fs_file, fs_files, sessionFile, clipboard, surface, content,
                   progress, editor, start_pos, remaining, i, current_html,
                   original_clipboard, success, verification, resumeOffered, clipboard0,
                   password, ENCRYPTION_AVAILABLE, resumeAnswer, driver_frame,
                   page, editors, editor_home>>

\* run: the finally block, and the return.  With --use-existing the block
\* prints and run returns; without it the block sleeps in its own
\* "while True: time.sleep(1)" until a Ctrl+C, and then calls driver.quit
Finish ==
    /\ pc = "finally"
    /\ trace' = IF args.use_existing THEN trace
                ELSE trace \o <<CtrlC("finally"), Event("quit", "driver", 0)>>
    /\ pc' = "returned"
    /\ UNCHANGED <<args, fs_file, fs_files, sessionFile, clipboard, surface, content,
                   progress, editor, start_pos, remaining, i, current_html,
                   original_clipboard, success, verification, resumeOffered, clipboard0,
                   password, ENCRYPTION_AVAILABLE, resumeAnswer, driver_frame,
                   page, editors, editor_home>>

(***************************************************************************)
(* Specifications.                                                         *)
(***************************************************************************)
\* the delivery cascade: run from "if editor:" to the strategies' return
Deliver ==
    \/ RunDeliver
    \/ ClipDirect \/ ClipPasteFormatted \/ ClipPastePlain \/ ClipGiveUp \/ ClipRaise
    \/ ChooseTyping
    \/ TypeContentEnter \/ TypeContentChar \/ TypeContentFinish \/ TypeContentRaise
    \/ BatchedEnter \/ BatchedStep \/ BatchedFinish \/ BatchedRaise
    \/ TypeFormatted \/ TypeFormattedRaise
    \/ Interrupt

Next ==
    \/ SetupBrowser \/ LoadContent \/ Navigate \/ LoadSession \/ FindEditor
    \/ Deliver
    \/ AfterDelivery \/ VerifyTypedContent \/ VerifyTypedContentRaise \/ KeepOpen
    \/ Finish

Spec == Init /\ [][Next]_vars

\* a run with --files: lists of up to MaxFiles files (none: the single file
\* args.file is loaded), each of them readable or not, without a session file
FilesArgs ==
    {[a EXCEPT !.files = f, !.file_separator = sep] :
        a \in {b \in Flags : b.no_session /\ ~b.encrypt},
        f \in UNION {[1 .. n -> ListedFiles] : n \in 0 .. MaxFiles},
        sep \in Separators}

InitFiles ==
    /\ args \in FilesArgs
    /\ ENCRYPTION_AVAILABLE = TRUE
    /\ fs_file = [exists |-> TRUE, text |-> <<"c">>]
    /\ sessionFile = NoSession
    /\ clipboard = <<"x">>
    /\ surface = <<>>
    /\ progress = 0
    /\ content = <<>>
    /\ editor = "none"
    /\ editor_home = "none"
    /\ start_pos = 0
    /\ remaining = <<>>
    /\ i = 0
    /\ current_html = <<>>
    /\ original_clipboard = Unbound
    /\ success = FALSE
    /\ verification = "none"
    /\ resumeOffered = FALSE
    /\ clipboard0 = <<>>
    /\ password = NoPassword
    /\ resumeAnswer = "none"
    /\ driver_frame = "top"
    /\ page = NoPage
    /\ editors = <<>>
    /\ fs_files \in [ListedFiles -> FileValues]
    /\ trace = <<>>
    /\ pc = "setup"

NextFiles == LoadMultipleFiles \/ Next

SpecFiles == InitFiles /\ [][NextFiles]_vars

\* the typing strategies alone, called as run calls them when the clipboard
\* attempt is disabled: on a located editor, with the content loaded and the
\* committed count at some offset k of it
TypingWith(flags, contents) ==
    /\ args \in {a \in flags : ~a.no_session /\ ~a.reset /\ a.no_clipboard
                               /\ a.no_verification /\ ~a.encrypt}
    /\ ENCRYPTION_AVAILABLE = TRUE
    /\ password = NoPassword
    /\ content \in contents
    /\ progress \in 0 .. Len(content)
    /\ fs_file = [exists |-> TRUE, text |-> content]
    /\ sessionFile = IF progress > 0 THEN SessionRecord(args, progress) ELSE NoSession
    /\ resumeOffered = (progress > 0)
    /\ resumeAnswer = IF progress > 0 THEN "y" ELSE "none"
    /\ driver_frame = "top"
    /\ page = NoPage
    /\ editors = <<>>
    /\ fs_files = NoFiles
    /\ clipboard0 = <<>>
    /\ clipboard = <<"x">>
    /\ surface = <<>>
    /\ editor = "body"
    /\ editor_home = "top"
    /\ start_pos = 0
    /\ remaining = <<>>
    /\ i = 0
    /\ current_html = <<>>
    /\ original_clipboard = Unbound
    /\ success = FALSE
    /\ verification = "none"
    /\ trace = <<>>
    /\ pc = "choose_typing"

TypingFrom(contents) == TypingWith(Flags, contents)

InitTyping == TypingFrom(TextContents \cup MarkupContents)

Typing ==
    \/ ChooseTyping
    \/ TypeContentEnter \/ TypeContentChar \/ TypeContentFinish \/ TypeContentRaise
    \/ BatchedEnter \/ BatchedStep \/ BatchedFinish \/ BatchedRaise
    \/ TypeFormatted \/ TypeFormattedRaise
    \/ Interrupt

SpecTyping == InitTyping /\ [][Typing]_vars

\* the typing strategies on buffers long enough for the periodic saves of
\* type_content_batched to fall due: the cadence depends on the length of the
\* buffer and on the offset alone, so one character stands for all
InitCadence == TypingFrom(CadenceContents)

SpecCadence == InitCadence /\ [][Typing]_vars

\* the end of a run, in a new browser and with --use-existing: the typing
\* strategies, and run from their return to its own
ExitFlags == {[a EXCEPT !.use_existing = u] : a \in Flags, u \in BOOLEAN}

InitExit == TypingWith(ExitFlags, RunContents)

NextExit == Typing \/ AfterDelivery \/ KeepOpen \/ Finish

\* the steps the script takes by itself: every step but those a Ctrl+C makes
\* (an interrupted typing loop, an interrupted sleep loop)
ScriptStep ==
    \/ ChooseTyping
    \/ TypeContentEnter \/ TypeContentChar \/ TypeContentFinish \/ TypeContentRaise
    \/ BatchedEnter \/ BatchedStep \/ BatchedFinish \/ BatchedRaise
    \/ TypeFormatted \/ TypeFormattedRaise
    \/ AfterDelivery
    \/ (Finish /\ args.use_existing)

\* the script runs on as long as it has a step to take; nobody has to press
\* Ctrl+C
SpecExit == InitExit /\ [][NextExit]_vars /\ WF_vars(ScriptStep)

\* save_session and load_session over every session file, with and without
\* --encrypt and the cryptography package: a run that is about to call
\* save_session for the last time and exit, and the next run of the same
\* command line, from its call of load_session
InitSession ==
    /\ args \in {a \in Flags : a.no_clipboard /\ a.no_verification /\ ~a.batch
                               /\ ~a.formatted}
    /\ ENCRYPTION_AVAILABLE \in BOOLEAN
    /\ sessionFile \in SessionFiles
    /\ content = [k \in 1 .. MaxRunLen |-> "a"]
    /\ fs_file = [exists |-> TRUE, text |-> content]
    /\ pc \in {"save_session", "load_session"}
    /\ progress \in IF pc = "save_session" THEN 0 .. MaxRunLen ELSE {0}
    /\ password \in IF pc = "save_session"
                    THEN {NoPassword} \cup {Typed(pw) : pw \in Passwords}
                    ELSE {NoPassword}
    /\ clipboard = <<"x">>
    /\ surface = <<>>
    /\ editor = "none"
    /\ editor_home = "none"
    /\ start_pos = 0
    /\ remaining = <<>>
    /\ i = 0
    /\ current_html = <<>>
    /\ original_clipboard = Unbound
    /\ success = FALSE
    /\ verification = "none"
    /\ resumeOffered = FALSE
    /\ resumeAnswer = "none"
    /\ driver_frame = "top"
    /\ page = NoPage
    /\ editors = <<>>
    /\ fs_files = NoFiles
    /\ clipboard0 = <<>>
    /\ trace = <<>>

\* save_session, as the last call of a run
SaveSessionCall ==
    /\ pc = "save_session"
    /\ SaveSession(progress)
    /\ trace' = Append(trace, SaveEvent(progress))
    /\ pc' = "exit"
    /\ UNCHANGED <<args, fs_file, fs_files, clipboard, surface, content, progress, editor,
                   start_pos, remaining, i, current_html, original_clipboard, success,
                   verification, resumeOffered, clipboard0, ENCRYPTION_AVAILABLE,
                   resumeAnswer, driver_frame,
                   page, editors, editor_home>>

\* the process exits and the same command line is run again: a new TinyMCETyper
NextRun ==
    /\ pc = "exit"
    /\ progress' = 0
    /\ password' = NoPassword
    /\ pc' = "load_session"
    /\ UNCHANGED <<args, fs_file, fs_files, sessionFile, clipboard, surface, content, editor,
                   start_pos, remaining, i, current_html, original_clipboard, success,
                   verification, resumeOffered, clipboard0, ENCRYPTION_AVAILABLE,
                   resumeAnswer, trace, driver_frame,
                   page, editors, editor_home>>

Session == SaveSessionCall \/ NextRun \/ LoadSession

SpecSession == InitSession /\ [][Session]_vars

(***************************************************************************)
(* The locators: find_and_focus_editor, handle_multiple_editors and        *)
(* find_editor.  A frame is named by a string and the body of a frame      *)
(* carries the name of its frame; what the page answers to a lookup is the *)
(* environment's choice at the time of the call.                           *)
(***************************************************************************)
\* find_and_focus_editor: the family selectors, in the order of the list
PatternFrame == <<"p1", "p2", "p3", "p4">>

PatternCount == Len(PatternFrame)

\* handle_multiple_editors: the frames matched by iframe[id$='_ifr'], as listed
IfrFrame == <<"ifr1", "ifr2", "ifr3", "ifr4">>

\* a call the locators make on the driver
DriverEvent(what, k) == Event(what, "driver", k)

\* what a locator hands back: the element, the context it leaves the driver in
\* and the calls it made, with the context the element was found in
Found(e, ctx, log) == [editor |-> e, frame |-> ctx, log |-> log, home |-> "none"]

\* ... for an element found in the context `home`
FoundIn(home, r) == [r EXCEPT !.home = IF r.editor = "none" THEN "none" ELSE home]

\* one family selector: "none" (no such element, or the frame switch raises:
\* the context is unchanged), "nobody" (the switch succeeds and the body
\* lookup raises), "ok" (the body is found)
PatternOutcomes == {"none", "nobody", "ok"}

\* the answers to the selectors; an answer past the first "ok" is never asked for
PatternAnswers ==
    {p \in [1 .. PatternCount -> PatternOutcomes] :
        \A j, k \in 1 .. PatternCount : (j < k /\ p[j] = "ok") => p[k] = "none"}

\* the page's answers to find_and_focus_editor; a wait that is not made has
\* no answer
FindAnswers(a) ==
    [iframe : IF a.iframe_id = "" THEN {"timeout"} ELSE {"found", "timeout", "raise"},
     editor : IF a.editor_id = "" THEN {"timeout"} ELSE {"found", "timeout"},
     pattern : PatternAnswers,
     generic : {"found", "none", "raise"},
     focus : {"ok", "raise"}]

\* Method 0: "except TimeoutException" continues, any other exception leaves
\* through the outer handler
FrameWaitFailsOnTimeout(outcome) == outcome \in {"raise", "timeout"}

FrameWaitFails(outcome) == outcome = "raise"

\* Method 2 and Method 3: "if not editor:"
NeedsPatternsAlways(e) == TRUE

NeedsPatterns(e) == e = "none"

\* Method 2: "break" after the body is found
BreaksNever(outcome) == FALSE

BreaksAtMatch(outcome) == outcome = "ok"

\* Method 2: the loop over tinymce_selectors from the k-th selector on
RECURSIVE ProbePatterns(_, _, _, _, _)
ProbePatterns(k, e, ctx, answers, log) ==
    IF k > PatternCount THEN Found(e, ctx, log)
    ELSE LET probed == Append(log, DriverEvent("find_pattern", k))
             inside == probed \o <<DriverEvent("switch_frame", k),
                                   DriverEvent("find_body", k)>>
         IN  IF answers[k] = "none"
             THEN ProbePatterns(k + 1, e, ctx, answers, probed)
             ELSE IF BreaksAtMatch(answers[k])
             THEN Found(PatternFrame[k], PatternFrame[k], inside)
             ELSE ProbePatterns(k + 1,
                                IF answers[k] = "ok" THEN PatternFrame[k] ELSE e,
                                PatternFrame[k], answers, inside)

\* find_and_focus_editor, called with the driver in context ctx
FindAndFocus(a, ctx, env) ==
    LET waited == a.iframe_id # ""
        log0 == IF ~waited THEN <<>>
                ELSE <<DriverEvent("wait_frame", 0)>>
                     \o (IF env.iframe = "found"
                         THEN <<DriverEvent("switch_frame", 0)>> ELSE <<>>)
        ctx0 == IF waited /\ env.iframe = "found" THEN a.iframe_id ELSE ctx
        log1 == IF a.editor_id = "" THEN log0
                ELSE Append(log0, DriverEvent("wait_editor", 0))
        e1   == IF a.editor_id # "" /\ env.editor = "found" THEN a.editor_id
                ELSE "none"
        r2   == IF NeedsPatterns(e1)
                THEN ProbePatterns(1, e1, ctx0, env.pattern, log1)
                ELSE Found(e1, ctx0, log1)
        log3 == IF r2.editor = "none"
                THEN Append(r2.log, DriverEvent("find_generic", 0)) ELSE r2.log
        e3   == IF r2.editor # "none" THEN r2.editor
                ELSE IF env.generic = "found" THEN "contenteditable" ELSE "none"
        log4 == Append(log3, DriverEvent("focus", 0))
    IN  IF waited /\ FrameWaitFails(env.iframe) THEN Found("none", ctx, log0)
        ELSE IF r2.editor = "none" /\ env.generic = "raise"
        THEN Found("none", r2.frame, log3)
        ELSE IF e3 = "none" THEN Found("none", r2.frame, log3)
        ELSE IF env.focus = "raise" THEN Found("none", r2.frame, log4)
        ELSE FoundIn(IF e3 = e1 THEN ctx0
                     ELSE IF e3 = "contenteditable" THEN r2.frame
                     ELSE e3,
                     Found(e3, r2.frame, log4))

\* a call of find_and_focus_editor, by run or by handle_multiple_editors
CallFindAndFocus(a, ctx, env, log) ==
    LET r == FindAndFocus(a, ctx, env)
    IN  FoundIn(r.home,
                Found(r.editor, r.frame,
                      log \o <<Event("call", "find_and_focus_editor", 0)>> \o r.log))

\* what handle_multiple_editors meets: the listing, the number of frames
\* listed, the answer typed (a number, or text that int() rejects) and the
\* fate of the frame selected
MultipleAnswers ==
    {m \in [listing : {"ok", "raise"}, n : 0 .. MaxFrames, parsed : BOOLEAN,
            choice : -1 .. MaxFrames + 1,
            selected : {"ok", "switch_raises", "body_raises", "focus_raises"}] :
        \* an answer that is never asked for keeps one value
        /\ (m.listing = "raise" => m.n = 0)
        /\ (m.n <= 1 => m.parsed /\ m.choice = 0)
        /\ (~m.parsed => m.choice = 0)
        /\ m.choice <= m.n + 1
        /\ (~(1 <= m.choice /\ m.choice <= m.n) => m.selected = "ok")}

\* handle_multiple_editors
HandleMultipleEditors(a, ctx, m, env) ==
    LET log0 == <<Event("call", "handle_multiple_editors", 0),
                  DriverEvent("default_content", 0), DriverEvent("find_frames", 0)>>
        chosen == IfrFrame[m.choice]
        log1 == Append(log0, DriverEvent("switch_frame", m.choice))
        log2 == Append(log1, DriverEvent("find_body", m.choice))
        log3 == Append(log2, DriverEvent("focus", m.choice))
    IN  IF m.listing = "raise" \/ m.n <= 1 \/ ~m.parsed
           \/ ~(1 <= m.choice /\ m.choice <= m.n)
        THEN CallFindAndFocus(a, "top", env, log0)
        ELSE IF m.selected = "switch_raises" THEN CallFindAndFocus(a, "top", env, log1)
        ELSE IF m.selected = "body_raises" THEN CallFindAndFocus(a, chosen, env, log2)
        ELSE IF m.selected = "focus_raises" THEN CallFindAndFocus(a, chosen, env, log3)
        ELSE FoundIn(chosen, Found(chosen, chosen, log3))

\* run: "if self.args.detect_multiple: ... else: ..."
Locate(a, ctx, m, env) ==
    IF a.detect_multiple
    THEN HandleMultipleEditors(a, ctx, m, env)
    ELSE CallFindAndFocus(a, ctx, env, <<>>)

\* the answers run draws when it locates the editor
LocateAnswers(a) ==
    {t \in [m : MultipleAnswers, env : FindAnswers(a)] :
        /\ (~a.detect_multiple => t.m.listing = "ok" /\ t.m.n = 0)
        \* handle_multiple_editors returns the frame selected without a call
        \* of find_and_focus_editor
        /\ (a.detect_multiple /\ 1 <= t.m.choice /\ t.m.choice <= t.m.n
              /\ t.m.selected = "ok"
            => t.env = [iframe |-> "timeout", editor |-> "timeout",
                        pattern |-> [k \in 1 .. PatternCount |-> "none"],
                        generic |-> "none", focus |-> "ok"])}

\* run: the first locator
RunLocate ==
    /\ pc = "locate"
    /\ \E t \in LocateAnswers(args) :
        LET r == Locate(args, driver_frame, t.m, t.env)
        IN  /\ editor' = r.editor
            /\ editor_home' = r.home
            /\ driver_frame' = r.frame
            /\ pc' = IF HasEditor(r.editor) THEN "deliver" ELSE "find_editor"
    /\ UNCHANGED <<args, fs_file, fs_files, sessionFile, clipboard, surface, content, progress,
                   start_pos, remaining, i, current_html, original_clipboard,
                   success, verification, resumeOffered, clipboard0, trace,
                   password, ENCRYPTION_AVAILABLE, resumeAnswer,
                   page, editors>>

\* find_editor: its calls on the driver before the first lookup
FindEditorLog ==
    <<Event("call", "find_editor", 0), DriverEvent("window_handle", 0),
      DriverEvent("default_content", 0), DriverEvent("find_frames", 0)>>

\* find_editor: possible_selectors, by index, against a frame
SelectorMatches(selector, kind) ==
    \/ selector = 2 /\ kind = "tinymce_ifr"
    \/ selector = 3 /\ kind \in {"tinymce_ifr", "ifr", "mce"}
    \/ selector = 4 /\ kind = "mce"

\* find_editor: a tuple (editor_type, editor_element, frame_element); the body
\* of a frame carries the name of the frame
Candidate(type, el, frame) == [type |-> type, el |-> el, frame |-> frame]

\* find_editor: the bodies of the frames find_elements returns for a selector
\* that matches the frames of the given kinds, in document order
FrameCandidates(pg, type, kinds) ==
    LET frames == SelectSeq([k \in 1 .. MaxFrames |-> k],
                            LAMBDA k : pg.frame[k] \in kinds)
    IN  [j \in 1 .. Len(frames) |->
            Candidate(type, PageFrame[frames[j]], PageFrame[frames[j]])]

\* find_editor: the loop over possible_selectors from the given selector on
RECURSIVE TinyMceCandidates(_, _)
TinyMceCandidates(pg, selector) ==
    IF selector > PatternCount THEN <<>>
    ELSE FrameCandidates(pg, "TinyMCE",
                         {kind \in FrameKinds : SelectorMatches(selector, kind)})
            \o TinyMceCandidates(pg, selector + 1)

\* find_editor: "if not any(editor == e[1] for e in editors)"
AlreadyFoundNever(el, found) == FALSE

AlreadyFound(el, found) == \E k \in 1 .. Len(found) : found[k].el = el

\* find_editor: the loop over content_editables
RECURSIVE AddContentEditables(_, _)
AddContentEditables(found, content_editables) ==
    IF content_editables = <<>> THEN found
    ELSE AddContentEditables(
            IF AlreadyFound(Head(content_editables), found) THEN found
            ELSE Append(found, Candidate("ContentEditable", Head(content_editables), "none")),
            Tail(content_editables))

\* find_editor: the list it returns
FindEditorList(pg) ==
    LET named == TinyMceCandidates(pg, 1)
                    \o FrameCandidates(pg, "CKEditor", {"cke"})
                    \o (IF pg.quill # "absent"
                        THEN <<Candidate("Quill", "quill", "none")>> ELSE <<>>)
        content_editables == (IF pg.quill = "editable" THEN <<"quill">> ELSE <<>>)
                                \o (IF pg.div THEN <<"div">> ELSE <<>>)
    IN  AddContentEditables(named, content_editables)

\* find_editor: the context a candidate was found in: its frame, or the
\* document
CandidateHome(candidate) ==
    IF candidate.frame # "none" THEN candidate.frame ELSE "top"

\* run: "if frame: self.driver.switch_to.frame(frame)", after find_editor has
\* returned to the default content
ContextAfterNoSwitch(candidate) == "top"

ContextAfter(candidate) ==
    IF candidate.frame # "none" THEN candidate.frame ELSE "top"

\* what run meets after find_and_focus_editor found nothing: find_editor
\* raising, the answer typed when it lists n editors, and whether the switch
\* to the frame of the editor used raises
AlternativeAnswers(n) ==
    {f \in [raises : BOOLEAN, parsed : BOOLEAN, choice : 0 .. n + 1,
            switch : {"ok", "raise"}] :
        /\ (f.raises => f.parsed /\ f.choice = 0)
        /\ (n <= 1 => f.parsed /\ (f.raises \/ f.choice = n))
        /\ (~f.parsed => f.choice = 0)}

\* run: "if not editor: editors = self.find_editor() ...": the position in the
\* list of the editor used (0: none)
Alternative(f, n) ==
    IF ~f.raises /\ f.parsed /\ 1 <= f.choice /\ f.choice <= n THEN f.choice ELSE 0

\* what the second locator came to: 0 nothing listed, 1 an editor taken,
\* 2 an invalid selection, 3 an exception
AlternativeCode(f, found) ==
    LET taken == Alternative(f, Len(found))
    IN  IF f.raises THEN 3
        ELSE IF found = <<>> THEN 0
        ELSE IF taken = 0 THEN 2
        ELSE IF found[taken].frame # "none" /\ f.switch = "raise" THEN 3
        ELSE 1

\* run: the second locator
RunFindEditor ==
    /\ pc = "find_editor"
    /\ \E f \in AlternativeAnswers(Len(FindEditorList(page))) :
        LET found == IF f.raises THEN <<>> ELSE FindEditorList(page)
            taken == Alternative(f, Len(found))
            code == AlternativeCode(f, found)
        IN  /\ editors' = found
            /\ editor' = IF taken = 0 THEN "none" ELSE found[taken].el
            /\ editor_home' = IF taken = 0 THEN "none" ELSE CandidateHome(found[taken])
            /\ driver_frame' = IF f.raises THEN driver_frame
                               ELSE IF code = 1 THEN ContextAfter(found[taken])
                               ELSE "top"
            /\ trace' = Append(trace, Event("locate", "find_editor", code))
            /\ pc' = IF code # 3 /\ HasEditor(editor') THEN "deliver" ELSE "finally"
    /\ UNCHANGED <<args, fs_file, fs_files, sessionFile, clipboard, surface, content, progress,
                   start_pos, remaining, i, current_html, original_clipboard,
                   success, verification, resumeOffered, clipboard0,
                   password, ENCRYPTION_AVAILABLE, resumeAnswer, page>>

\* the pages of the locator-level specification: no editor at all, one
\* TinyMCE frame, and a Quill editor beside a CKEditor frame
LocatePages ==
    {NoPage,
     [NoPage EXCEPT !.frame[1] = "ifr"],
     [NoPage EXCEPT !.frame[1] = "cke", !.quill = "editable", !.div = TRUE]}

\* the options of the locators, over three delivery configurations that
\* between them reach every strategy
LocateArgs ==
    {[a EXCEPT !.detect_multiple = d, !.iframe_id = f, !.editor_id = e] :
        a \in {b \in Flags :
                  /\ ~b.no_session /\ ~b.reset /\ ~b.encrypt /\ ~b.no_verification
                  /\ \/ ~b.no_clipboard /\ ~b.batch /\ ~b.formatted
                     \/ b.no_clipboard /\ b.batch /\ b.batch_size = 1
                     \/ b.no_clipboard /\ b.formatted},
        d \in BOOLEAN, f \in {"", "fr"}, e \in {"", "ed"}}

\* run at "editor = None", with the content loaded and the session settled
InitLocate ==
    /\ args \in LocateArgs
    /\ ENCRYPTION_AVAILABLE = TRUE
    /\ password = NoPassword
    /\ content = <<"a">>
    /\ progress \in 0 .. Len(content)
    /\ fs_file = [exists |-> TRUE, text |-> content]
    /\ sessionFile = IF progress > 0 THEN SessionRecord(args, progress) ELSE NoSession
    /\ resumeOffered = (progress > 0)
    /\ resumeAnswer = IF progress > 0 THEN "y" ELSE "none"
    /\ driver_frame = "top"
    /\ page \in LocatePages
    /\ editors = <<>>
    /\ fs_files = NoFiles
    /\ clipboard0 = <<>>
    /\ clipboard = <<"x">>
    /\ surface = <<>>
    /\ editor = "none"
    /\ editor_home = "none"
    /\ start_pos = 0
    /\ remaining = <<>>
    /\ i = 0
    /\ current_html = <<>>
    /\ original_clipboard = Unbound
    /\ success = FALSE
    /\ verification = "none"
    /\ trace = <<>>
    /\ pc = "locate"

NextLocate ==
    \/ RunLocate \/ RunFindEditor
    \/ Deliver
    \/ AfterDelivery \/ VerifyTypedContent \/ VerifyTypedContentRaise \/ KeepOpen
    \/ Finish

SpecLocate == InitLocate /\ [][NextLocate]_vars

\* verify_typed_content alone, on expected contents and surfaces that include
\* buffers of a sentence's length
HelloWorldFoo ==
    <<"H", "e", "l", "l", "o", SP, SP, SP, "W", "o", "r", "l", "d", NL,
      NL, "F", "o", "o">>

HelloWorldFooParagraphs ==
    P_OPEN \o <<"H", "e", "l", "l", "o", SP, "W", "o", "r", "l", "d">> \o P_CLOSE
        \o P_OPEN \o <<"F", "o", "o">> \o P_CLOSE

QuickBrownFox ==
    <<"T", "h", "e", SP, "q", "u", "i", "c", "k", SP, "b", "r", "o", "w",
      "n", SP, "f", "o", "x">>

QuickBrownFo == SubSeq(QuickBrownFox, 1, Len(QuickBrownFox) - 1)

CompletelyDifferent ==
    <<"c", "o", "m", "p", "l", "e", "t", "e", "l", "y", SP, "d", "i", "f",
      "f", "e", "r", "e", "n", "t", SP, "t", "e", "x", "t">>

VerifyExpected == {HelloWorldFoo, QuickBrownFox} \cup RunContents

VerifyActual ==
    {HelloWorldFooParagraphs, QuickBrownFo, CompletelyDifferent}
        \cup {FormatBulk(c) : c \in RunContents}

InitVerify ==
    /\ args \in {a \in Flags : ~a.no_session /\ ~a.reset /\ ~a.encrypt
                               /\ ~a.no_verification /\ a.no_clipboard
                               /\ ~a.batch /\ ~a.formatted}
    /\ ENCRYPTION_AVAILABLE = TRUE
    /\ password = NoPassword
    /\ content \in VerifyExpected
    /\ surface \in VerifyActual
    /\ progress = Len(content)
    /\ fs_file = [exists |-> TRUE, text |-> content]
    /\ sessionFile = SessionRecord(args, progress)
    /\ resumeOffered = FALSE
    /\ resumeAnswer = "none"
    /\ driver_frame = "top"
    /\ page = NoPage
    /\ editors = <<>>
    /\ fs_files = NoFiles
    /\ clipboard0 = <<>>
    /\ clipboard = <<"x">>
    /\ editor = "body"
    /\ editor_home = "top"
    /\ start_pos = 0
    /\ remaining = content
    /\ i = Len(content)
    /\ current_html = surface
    /\ original_clipboard = Unbound
    /\ success = TRUE
    /\ verification = "none"
    /\ trace = <<>>
    /\ pc = "verify"

NextVerify == VerifyTypedContent \/ VerifyTypedContentRaise \/ KeepOpen \/ Finish

SpecVerify == InitVerify /\ [][NextVerify]_vars

\* run at "editors = self.find_editor()", on every page: find_and_focus_editor
\* has returned None
InitCandidates ==
    /\ args \in {a \in LocateArgs : a.no_clipboard /\ a.formatted /\ ~a.detect_multiple
                                     /\ a.iframe_id = "" /\ a.editor_id = ""}
    /\ ENCRYPTION_AVAILABLE = TRUE
    /\ password = NoPassword
    /\ content = <<"a">>
    /\ progress = 0
    /\ fs_file = [exists |-> TRUE, text |-> content]
    /\ sessionFile = NoSession
    /\ resumeOffered = FALSE
    /\ resumeAnswer = "none"
    /\ driver_frame \in {"top", PageFrame[1]}
    /\ page \in Pages
    /\ editors = <<>>
    /\ fs_files = NoFiles
    /\ clipboard0 = <<>>
    /\ clipboard = <<"x">>
    /\ surface = <<>>
    /\ editor = "none"
    /\ editor_home = "none"
    /\ start_pos = 0
    /\ remaining = <<>>
    /\ i = 0
    /\ current_html = <<>>
    /\ original_clipboard = Unbound
    /\ success = FALSE
    /\ verification = "none"
    /\ trace = <<>>
    /\ pc = "find_editor"

NextCandidates == RunFindEditor \/ Finish

SpecCandidates == InitCandidates /\ [][NextCandidates]_vars

(***************************************************************************)
(* Vocabulary of the properties.                                           *)
(***************************************************************************)
Strategies ==
    {"try_clipboard_paste", "type_content", "type_content_batched",
     "type_formatted_content"}

\* the events of one kind, in order
EventsOf(kind) == SelectSeq(trace, LAMBDA e : e.ev = kind)

\* the strategy that returned last, and what it returned
LastReturn == EventsOf("ret")[Len(EventsOf("ret"))]

\* a strategy has just returned success to run
DeliveredBy(who) ==
    /\ pc = "after_delivery"
    /\ success
    /\ LastReturn.who = who

\* the innerHTML type_content leaves when it types all of `text` from offset 0
RECURSIVE TypeContentHtml(_, _)
TypeContentHtml(text, n) ==
    IF n = 0 THEN <<>>
    ELSE TypeContentHtml(text, n - 1) \o FormatChar(text[n], Slice(text, n - 2, n - 1))

\* the innerHTML type_content_batched leaves when it types `text` from offset k
\* of an empty editor
RECURSIVE BatchedHtml(_, _, _)
BatchedHtml(text, k, batch_size) ==
    IF k >= Len(text) THEN <<>>
    ELSE FormatBatch(Slice(text, k, BatchEnd(k, batch_size, Len(text))))
             \o BatchedHtml(text, k + batch_size, batch_size)

\* what the user reads on the surface, whitespace-normalized
Shown(html) == Normalize(Render(html))

TypingStrategies == {"type_content", "type_content_batched", "type_formatted_content"}

\* how many times a strategy was called
CallsOf(who) == Len(SelectSeq(trace, LAMBDA e : e.ev = "call" /\ e.who = who))

\* a strategy has returned v (1: success, 0: failure)
HasReturned(who, v) ==
    \E k \in 1 .. Len(trace) :
        trace[k].ev = "ret" /\ trace[k].who = who /\ trace[k].val = v

TypingCalled == \E who \in TypingStrategies : CallsOf(who) > 0

\* the progress values save_session was called with, in order
SavedValues == [k \in 1 .. Len(EventsOf("save")) |-> EventsOf("save")[k].val]

\* C1: a typing strategy resumed at an offset k, 0 <= k <= |B|, ends on a surface
\* that, whitespace-normalized, equals the one the same strategy ends on when it
\* is started at offset 0
C1_ResumeEqualsScratch ==
    /\ (DeliveredBy("type_content") /\ start_pos <= Len(content))
           => Shown(surface) = Shown(TypeContentHtml(content, Len(content)))
    /\ (DeliveredBy("type_content_batched") /\ start_pos <= Len(content))
           => Shown(surface) = Shown(BatchedHtml(content, 0, args.batch_size))

\* C2: a strategy that returns success on a buffer delivered from offset 0 leaves
\* a surface whose rendered content, whitespace-normalized, is the buffer's
C2_SuccessMeansDelivered ==
    \A who \in Strategies :
        (DeliveredBy(who) /\ start_pos = 0)
            => Shown(surface) = Normalize(content)

\* C3: once try_clipboard_paste has returned, on whichever path, the clipboard
\* holds what it held when try_clipboard_paste was entered
C3_ClipboardRestored ==
    (HasReturned("try_clipboard_paste", 0) \/ HasReturned("try_clipboard_paste", 1))
        => clipboard = clipboard0

\* C4: from the first strategy call on, no step lowers self.progress, and each
\* save_session writes a count no lower than the save before it
C4_Step ==
    /\ (trace # <<>> => progress' >= progress)
    /\ \A j, k \in 1 .. Len(SavedValues') : j <= k => SavedValues'[j] <= SavedValues'[k]

C4_ProgressNeverDecreases == [][C4_Step]_vars

\* C4's case: a typing strategy has saved twice and the count has grown
C4_Witness ==
    /\ TypingCalled
    /\ progress > 0
    /\ Len(SavedValues) >= 2
    /\ SavedValues[1] < SavedValues[Len(SavedValues)]

\* C5: self.progress, and every count handed to save_session, is at most the
\* length of the content loaded for this run
C5_ProgressWithinContent ==
    pc \notin {"setup", "load_content"}
        => /\ progress <= Len(content)
           /\ \A k \in 1 .. Len(SavedValues) : SavedValues[k] <= Len(content)

\* C6: when load_session has returned and the stored record is for another url
\* or another file, the committed count is 0 and no resume was offered
C6_StaleSessionIgnored ==
    (/\ pc = "locate"
     /\ sessionFile.kind = "plain"
     /\ (sessionFile.url # args.url \/ sessionFile.file # args.file))
        => (progress = 0 /\ ~resumeOffered)

\* C6's case: load_session has read a record with a count for the same url and
\* another file
C6_Witness ==
    /\ pc = "locate"
    /\ ~args.no_session
    /\ sessionFile.kind = "plain"
    /\ sessionFile.url = args.url
    /\ sessionFile.file # args.file
    /\ sessionFile.progress > 0

\* run is past the choice of a typing strategy
PastTypingChoice == pc \in {"after_delivery", "verify", "keep_open", "finally", "returned"}

\* C7: a typing strategy is called only if an editor was located and the
\* clipboard attempt was disabled or returned failure; it is called whenever
\* that is so; and nothing is called after a strategy has returned success
C7_TypingIffClipboardOff ==
    /\ TypingCalled
           => (editor # "none"
               /\ (args.no_clipboard \/ HasReturned("try_clipboard_paste", 0)))
    /\ (/\ PastTypingChoice
        /\ editor # "none"
        /\ (args.no_clipboard \/ HasReturned("try_clipboard_paste", 0)))
           => TypingCalled
    /\ \A j, k \in 1 .. Len(trace) :
           (j < k /\ trace[j].ev = "ret" /\ trace[j].val = 1) => trace[k].ev # "call"

\* C7's case: the clipboard attempt failed and a typing strategy then succeeded
C7_Witness ==
    /\ HasReturned("try_clipboard_paste", 0)
    /\ \E who \in TypingStrategies : DeliveredBy(who)

\* a typing strategy has returned
TypingReturned == \E who \in TypingStrategies, v \in {0, 1} : HasReturned(who, v)

\* C8: no strategy is called twice in a run; no strategy is called once a typing
\* strategy has returned, or once verify_typed_content has
C8_Step ==
    /\ \A who \in Strategies : CallsOf(who)' <= 1
    /\ (TypingReturned \/ verification # "none")
           => EventsOf("call")' = EventsOf("call")

C8_NoStrategyTwice == [][C8_Step]_vars

\* C8's case: the run has ended after a typing strategy succeeded and the user
\* answered y to the retry prompt (verify_typed_content returned False)
C8_Witness ==
    /\ pc = "returned"
    /\ TypingReturned
    /\ success
    /\ verification = "false"

\* C9: a strategy in which a call raised goes on to call save_session with the
\* current committed count and then returns failure
C9_RaiseSavesAndFails ==
    \A k \in 1 .. Len(trace) :
        trace[k].ev = "raise"
            => /\ k + 2 <= Len(trace)
               /\ trace[k + 1].ev = "save"
               /\ trace[k + 2].ev = "ret"
               /\ trace[k + 2].who = trace[k].who
               /\ trace[k + 2].val = 0

\* C10: when a strategy has returned success, save_session has been called since
\* the strategy was called, the last time with |B|
C10_SuccessSavesFullCount ==
    (pc = "after_delivery" /\ success)
        => \E k \in 1 .. Len(trace) :
               /\ trace[k].ev = "save"
               /\ trace[k].val = Len(content)
               /\ \A j \in (k + 1) .. Len(trace) : trace[j].ev \notin {"save", "call"}

\* C11: verify_typed_content, having read the surface, returns True exactly when
\* the whitespace-normalized expected content is a substring of the
\* whitespace-normalized surface content, whatever is answered at the retry prompt
C11_VerifiedIffContained ==
    (/\ verification # "none"
     /\ \A k \in 1 .. Len(trace) : trace[k].ev # "error")
        => ((verification = "true") <=> ContentFound(content, surface))

\* load_session cannot use the file: its text is neither JSON nor a token the
\* passphrase opens, or it is JSON that lacks a field
Unusable(stored, pw) ==
    \/ stored.kind = "garbage"
    \/ stored.kind = "encrypted"
           /\ (~ENCRYPTION_AVAILABLE \/ ~pw.bound \/ pw.text # stored.key)
    \/ stored.kind = "plain" /\ stored.missing # "none"

\* C12: load_session always returns to run, and when the session file is
\* unusable (unparseable, undecryptable with the passphrase given, or lacking a
\* field) it returns with the committed count 0 and without offering a resume
C12_UnusableCheckpointIgnored ==
    /\ pc = "load_session" => ENABLED LoadSession
    /\ (pc = "locate" /\ ~args.no_session /\ Unusable(sessionFile, password))
           => (progress = 0 /\ ~resumeOffered)

\* C12's case: load_session has met an encrypted record for this url and file,
\* with a count, and was given another passphrase than the one it was saved with
C12_Witness ==
    /\ pc = "locate"
    /\ ~args.no_session
    /\ ENCRYPTION_AVAILABLE
    /\ sessionFile.kind = "encrypted"
    /\ SessionMatches(args, sessionFile)
    /\ sessionFile.progress > 0
    /\ password.bound
    /\ password.text # sessionFile.key

MatchingCheckpoint ==
    /\ ~args.no_session
    /\ sessionFile.kind = "plain"
    /\ sessionFile.missing = "none"
    /\ SessionMatches(args, sessionFile)

\* C14 as stated: after load_session has found a matching checkpoint, the
\* committed count is the stored count if the reset flag is not set and the
\* answer is 'y', and it is 0, and typing starts at offset 0, with the reset flag
\* or any other answer
C14_ResumeOnlyOnY ==
    /\ (pc = "locate" /\ MatchingCheckpoint)
           => progress = IF ~args.reset /\ resumeAnswer = "y"
                         THEN sessionFile.progress ELSE 0
    /\ (/\ pc \in {"type_loop", "batch_loop"}
        /\ ~args.no_session
        /\ (args.reset \/ resumeAnswer # "y"))
           => start_pos = 0

\* C14, amended: the answer is compared after lower-casing, so 'y' and 'Y'
\* resume; the reset flag or any other answer gives the count 0 and typing from
\* offset 0
C14_ResumeOnLowercasedY ==
    /\ (pc = "locate" /\ MatchingCheckpoint)
           => progress = IF ~args.reset /\ Lower(resumeAnswer) = "y"
                         THEN sessionFile.progress ELSE 0
    /\ (/\ pc \in {"type_loop", "batch_loop"}
        /\ ~args.no_session
        /\ (args.reset \/ Lower(resumeAnswer) # "y"))
           => start_pos = 0

\* C14's case: a matching checkpoint with a count, the answer 'Y', and typing
\* under way from the stored count
C14_Witness ==
    /\ pc \in {"type_loop", "batch_loop"}
    /\ MatchingCheckpoint
    /\ resumeAnswer = "Y"
    /\ start_pos = sessionFile.progress
    /\ start_pos > 0

\* a KeyboardInterrupt has ended a typing loop
Interrupted == \E k \in 1 .. Len(trace) : trace[k].ev = "interrupt"

\* the characters of the remaining text the typing loop has written
WrittenChars == IF i < Len(remaining) THEN i ELSE Len(remaining)

\* C15: once an interrupt has ended a typing loop, nothing more is written to the
\* surface or to the session file, and the record the file holds for this url
\* and file has a count of at most the resume offset plus the characters this
\* run has written
C15_Step ==
    /\ Interrupted
           => (surface' = surface /\ sessionFile' = sessionFile
               /\ SavedValues' = SavedValues)
    /\ (/\ Interrupted'
        /\ sessionFile'.kind \in {"plain", "encrypted"}
        /\ SessionMatches(args', sessionFile'))
           => sessionFile'.progress <= start_pos' + WrittenChars'

C15_InterruptKeepsCheckpoint == [][C15_Step]_vars

\* the count of the last save_session of this run, or, before the first, the
\* offset the run resumed from (the count the file was loaded with)
LastPersisted ==
    IF SavedValues # <<>> THEN SavedValues[Len(SavedValues)] ELSE start_pos

\* C16: between two surface writes of a typing loop, the characters written
\* beyond the last persisted count are at most one cadence interval: 100 in
\* type_content, 5 x batch_size in type_content_batched
C16_UnsavedWithinCadence ==
    /\ (pc = "type_loop" /\ i < Len(remaining))
           => (start_pos + i) - LastPersisted <= SaveEvery
    /\ (pc = "batch_loop" /\ i < Len(remaining))
           => (start_pos + i) - LastPersisted <= BatchSaveFactor * args.batch_size

\* C17: in a run started with --no-session, load_session is not called (no
\* prompt, no count loaded) and no step writes the session file or calls
\* save_session
C17_Step ==
    args.no_session
        => /\ sessionFile' = sessionFile
           /\ SavedValues' = SavedValues
           /\ pc = "load_session" => (progress' = progress /\ ~resumeOffered')

C17_NoSessionNoFile == [][C17_Step]_vars

\* the mechanisms try_clipboard_paste has used to write to the editor, in order
ClipboardWrites == [k \in 1 .. Len(EventsOf("write")) |-> EventsOf("write")[k].who]

\* C18: with the clipboard attempt enabled, the first write to the editor is a
\* clipboard paste, and the innerHTML is set directly only after a paste
C18_PasteBeforeInjection ==
    ~args.no_clipboard
        => \A k \in 1 .. Len(ClipboardWrites) :
               ClipboardWrites[k] = "innerHTML"
                   => \E j \in 1 .. k - 1 : ClipboardWrites[j] = "paste"

\* C19: when try_clipboard_paste has returned success, the surface contains the
\* delivered content: its innerHTML contains the formatted content, or the text
\* it shows contains the content, whitespace-normalized
C19_SuccessMeansContentOnSurface ==
    DeliveredBy("try_clipboard_paste")
        => \/ Contains(surface, FormatBulk(content))
           \/ Contains(Shown(surface), Normalize(content))

\* C20: when the content holds markup and run reaches the typing stage, the
\* strategy it calls is type_formatted_content, whatever options were given
C20_MarkupChoosesInjection ==
    (TypingCalled /\ LooksLikeHtml(content)) => CallsOf("type_formatted_content") > 0

\* the calls on the driver that look an element up or change the frame
Searching ==
    {"wait_frame", "wait_editor", "find_pattern", "find_body", "find_generic",
     "find_frames", "switch_frame"}

\* in a log of driver calls, every search made after a locator is entered comes
\* after a switch to the default content made since it was entered
ResetsFirst(log) ==
    \A j \in 1 .. Len(log) :
        log[j].ev = "call"
            => \A k \in j + 1 .. Len(log) :
                   (/\ log[k].ev \in Searching
                    /\ \A h \in j + 1 .. k - 1 : log[h].ev # "call")
                       => \E h \in j + 1 .. k - 1 : log[h].ev = "default_content"

\* C21: every invocation of an editor search (find_and_focus_editor,
\* find_editor, handle_multiple_editors, and find_and_focus_editor called from
\* handle_multiple_editors) switches to the default content before its first
\* frame switch or element lookup
C21_SearchStartsAtDefaultContent ==
    pc = "locate"
        => /\ \A t \in LocateAnswers(args) :
                  ResetsFirst(Locate(args, driver_frame, t.m, t.env).log)
           /\ ResetsFirst(FindEditorLog)

\* the contexts find_and_focus_editor can be entered in
LocatorContexts == {"top"} \cup {IfrFrame[k] : k \in 1 .. MaxFrames}

\* find_and_focus_editor reaches Method 1 and the wait for --editor-id finds
\* the element
FoundById(a, env) ==
    /\ a.editor_id # "" /\ env.editor = "found"
    /\ ~(a.iframe_id # "" /\ env.iframe = "raise")

\* in a log of driver calls, no selector is probed, no generic lookup is made
\* and no frame is switched to after the wait for --editor-id
NoSearchAfterFound(log) ==
    \A j \in 1 .. Len(log) :
        log[j].ev = "wait_editor"
            => \A k \in j + 1 .. Len(log) :
                   log[k].ev \notin {"find_pattern", "find_generic", "switch_frame",
                                    "find_body"}

NoUsableId(a, env) ==
    /\ a.editor_id = "" \/ env.editor = "timeout"
    /\ ~(a.iframe_id # "" /\ env.iframe = "raise")

\* the first family selector whose frame switch and body lookup both succeed
\* (0: none does)
FirstMatch(answers) ==
    IF \E k \in 1 .. PatternCount : answers[k] = "ok"
    THEN CHOOSE k \in 1 .. PatternCount :
            /\ answers[k] = "ok"
            /\ \A j \in 1 .. k - 1 : answers[j] # "ok"
    ELSE 0

\* the family selectors probed, in the order of the probes
Probed(log) ==
    LET probes == SelectSeq(log, LAMBDA e : e.ev = "find_pattern")
    IN  [k \in 1 .. Len(probes) |-> probes[k].val]

\* the selectors are probed in list order, up to the first match
ProbedInOrder(log, answers) ==
    Probed(log) = [k \in 1 .. (IF FirstMatch(answers) > 0 THEN FirstMatch(answers)
                                ELSE PatternCount) |-> k]

\* the generic contenteditable lookup was made
GenericLookup(log) == \E k \in 1 .. Len(log) : log[k].ev = "find_generic"

SelectsListed(m) ==
    m.listing = "ok" /\ m.n > 1 /\ m.parsed /\ 1 <= m.choice /\ m.choice <= m.n

\* handle_multiple_editors lists exactly one frame, or the answer typed is 0,
\* out of range or not a number
DefersToSingle(m) ==
    m.listing = "ok" /\ (m.n = 1 \/ (m.n > 1 /\ ~SelectsListed(m)))

\* C24: in handle_multiple_editors, with more than one frame listed, choice i
\* yields the body of the i-th listed frame and never another editor; with
\* exactly one frame listed, or the choice 0 or invalid, the result is that of
\* find_and_focus_editor
C24_SelectedFrameIsUsed ==
    (pc = "locate" /\ args.detect_multiple)
        => \A t \in LocateAnswers(args) :
               LET r == HandleMultipleEditors(args, driver_frame, t.m, t.env)
                   single == FindAndFocus(args, "top", t.env)
               IN  /\ SelectsListed(t.m)
                          => r.editor \in {IfrFrame[t.m.choice], "none"}
                   /\ DefersToSingle(t.m)
                          => r.editor = single.editor /\ r.frame = single.frame

\* C25: when --iframe-id is given and the wait for the frame times out,
\* find_and_focus_editor goes on as it does without --iframe-id: the same
\* driver calls from the same context, with no frame switch before them, and
\* the same editor returned
C25_FrameTimeoutContinues ==
    (pc = "locate" /\ args.iframe_id # "")
        => \A ctx \in LocatorContexts, env \in FindAnswers(args) :
               env.iframe = "timeout"
                   => LET r == FindAndFocus(args, ctx, env)
                          search == FindAndFocus([args EXCEPT !.iframe_id = ""], ctx, env)
                      IN  /\ r.editor = search.editor
                          /\ r.frame = search.frame
                          /\ r.log = <<DriverEvent("wait_frame", 0)>> \o search.log

\* run goes on to delivery with the generic element found in the document
\* itself, although --iframe-id was given
C25_Witness ==
    /\ pc = "deliver"
    /\ args.iframe_id # ""
    /\ ~args.detect_multiple
    /\ driver_frame = "top"
    /\ editor = "contenteditable"

\* the calls of the strategies so far
StrategyCalls == EventsOf("call")

\* C26: while no editor is located (the locators return nothing, or the
\* selection among the alternative editors is invalid), the run moves on to its
\* end without calling a delivery strategy or writing to the surface, and the
\* committed count and the session file stay as they are
C26_Step ==
    editor' = "none"
        => /\ pc' \in {"find_editor", "finally", "returned"}
           /\ StrategyCalls' = StrategyCalls
           /\ surface' = surface
           /\ progress' = progress
           /\ sessionFile' = sessionFile

C26_NoEditorNoDelivery == [][C26_Step]_vars

\* the run has returned after an invalid selection among the editors that
\* find_editor listed
C26_Witness ==
    /\ pc = "returned"
    /\ editor = "none"
    /\ \E k \in 1 .. Len(trace) : trace[k] = Event("locate", "find_editor", 2)

\* a string over letters, spaces and newlines
PlainText(s) == \A k \in 1 .. Len(s) : s[k] \in {"a", SP, NL}

\* C27: for a string over letters, spaces and newlines, the bulk formatter,
\* the per-character formatter of type_content and the per-batch formatter of
\* type_content_batched each produce HTML whose rendering, whitespace-
\* normalized, is the whitespace-normalized string; so is the surface a typing
\* strategy leaves when it has typed such a buffer from offset zero
C27_FormattersPreserveText ==
    PlainText(content)
        => /\ Shown(FormatBulk(content)) = Normalize(content)
           /\ Shown(TypeContentHtml(content, Len(content))) = Normalize(content)
           /\ \A batch_size \in BatchSizes :
                  Shown(BatchedHtml(content, 0, batch_size)) = Normalize(content)
           /\ \A who \in TypingStrategies :
                  (DeliveredBy(who) /\ start_pos = 0 /\ Len(remaining) = Len(content))
                      => Shown(surface) = Normalize(content)

\* type_content_batched has typed, from offset zero, a buffer with a newline
\* or a run of spaces in it
C27_Witness ==
    /\ DeliveredBy("type_content_batched")
    /\ start_pos = 0
    /\ content \in {<<"a", NL, "a">>, <<"a", SP, SP>>, <<SP, SP, "a">>}
    /\ Shown(surface) = Normalize(content)

\* "Hello World Foo"
HelloWorldFooClean ==
    <<"H", "e", "l", "l", "o", SP, "W", "o", "r", "l", "d", SP, "F", "o",
      "o">>

\* verify_typed_content hit its "except Exception"
VerifyFailed == EventsOf("error") # <<>>

\* C28: for the expected content "Hello   World\n\nFoo" and the surface HTML
\* "<p>Hello World</p><p>Foo</p>", the normalized expected string is
\* "Hello World Foo", it is contained in the normalized surface string, and
\* verify_typed_content returns True
C28_ParagraphsVerify ==
    (content = HelloWorldFoo /\ surface = HelloWorldFooParagraphs)
        => /\ Normalize(content) = HelloWorldFooClean
           /\ Contains(Normalize(surface), Normalize(content))
           /\ (pc = "finally" /\ ~VerifyFailed) => verification = "true"

\* the retry prompt of verify_typed_content was shown
Prompted == EventsOf("prompt") # <<>>

\* the characters SequenceMatcher matches between the two normalized strings,
\* and the sum of their lengths
Matches ==
    MatchingChars(Normalize(content), Normalize(surface),
                  0, Len(Normalize(content)), 0, Len(Normalize(surface)))

Total == Len(Normalize(content)) + Len(Normalize(surface))

\* C29: verify_typed_content offers the retry only when containment fails and
\* the similarity 200 * matches / total of the normalized strings is below 90;
\* for "The quick brown fox" against "The quick brown fo" the similarity is at
\* least 90 and no prompt is shown, and against "completely different text" it
\* is below 90 and the prompt is shown
C29_RetryBelowNinety ==
    /\ Prompted
          => /\ ~Contains(Normalize(surface), Normalize(content))
             /\ 200 * Matches < 90 * Total
    /\ (content = QuickBrownFox /\ surface = QuickBrownFo)
          => /\ Matches = 18 /\ Total = 37
             /\ 200 * Matches >= 90 * Total
             /\ ~Prompted
    /\ (content = QuickBrownFox /\ surface = CompletelyDifferent)
          => /\ Matches = 5 /\ Total = 44
             /\ 200 * Matches < 90 * Total
             /\ (pc = "finally" /\ ~VerifyFailed) => Prompted

\* verify_typed_content has returned False for "The quick brown fo" without
\* asking
C29_Witness ==
    /\ content = QuickBrownFox
    /\ surface = QuickBrownFo
    /\ pc = "finally"
    /\ ~VerifyFailed
    /\ verification = "false"
    /\ ~Prompted

\* C30: the HTML a strategy has written to the surface never holds two
\* adjacent literal spaces, whether the run of spaces lies inside a batch,
\* across two batches, or across the prefix and the suffix of a resumed
\* delivery
C30_NoAdjacentLiteralSpaces == ~Contains(surface, <<SP, SP>>)

\* the smaller of two numbers
Least(m, n) == IF m < n THEN m ELSE n

\* the batches type_content_batched has written when its loop index is at n:
\* the j-th covers the buffer from (j - 1) * batch_size, for batch_size
\* characters or up to the end of the buffer
WrittenBatches(text, n, batch_size) ==
    LET done == Least(n, Len(text))
        count == (done + batch_size - 1) \div batch_size
    IN  [j \in 1 .. count |->
            Slice(text, (j - 1) * batch_size, Least(j * batch_size, Len(text)))]

\* the formatted forms of a sequence of batches, one after the other
RECURSIVE FormattedInOrder(_)
FormattedInOrder(batches) ==
    IF batches = <<>> THEN <<>>
    ELSE FormatBatch(Head(batches)) \o FormattedInOrder(Tail(batches))

\* the buffer characters of a sequence of batches, one after the other
RECURSIVE Joined(_)
Joined(batches) ==
    IF batches = <<>> THEN <<>> ELSE Head(batches) \o Joined(Tail(batches))

\* the HTML on the surface when batching starts
HtmlAtBatchStart ==
    IF start_pos > 0 THEN FormatBulk(Slice(content, 0, start_pos)) ELSE <<>>

\* C31: in type_content_batched, after every batch the surface HTML is the HTML
\* present when batching started (the formatted committed prefix when
\* resuming, empty otherwise) followed by the formatted batches written so
\* far in buffer order; the batches written are the buffer up to the loop
\* index, cut every batch_size characters, the last one possibly shorter
C31_SurfaceIsPrefixPlusBatches ==
    pc = "batch_loop"
        => LET batches == WrittenBatches(remaining, i, args.batch_size)
           IN  /\ surface = HtmlAtBatchStart \o FormattedInOrder(batches)
               /\ Joined(batches) = Slice(remaining, 0, Least(i, Len(remaining)))
               /\ \A j \in 1 .. Len(batches) :
                      /\ Len(batches[j]) <= args.batch_size
                      /\ j < Len(batches) => Len(batches[j]) = args.batch_size

\* a resumed type_content_batched has written a full batch and a shorter last
\* one
C31_Witness ==
    /\ pc = "batch_loop"
    /\ start_pos > 0
    /\ args.batch_size = 2
    /\ Len(remaining) = 3
    /\ i >= Len(remaining)

\* C32: in the list find_editor returns, a generic ContentEditable candidate is
\* never an element that the list also holds under a named family (TinyMCE,
\* CKEditor, Quill)
C32_GenericNotAlreadyNamed ==
    \A j, k \in 1 .. Len(editors) :
        (editors[k].type = "ContentEditable" /\ editors[j].type # "ContentEditable")
            => editors[j].el # editors[k].el

\* find_editor has listed, on a page whose Quill element is contenteditable
\* beside another contenteditable element, the Quill editor and the other
\* element
C32_Witness ==
    /\ page.quill = "editable"
    /\ page.div
    /\ \E j, k \in 1 .. Len(editors) :
          /\ editors[j] = Candidate("Quill", "quill", "none")
          /\ editors[k] = Candidate("ContentEditable", "div", "none")

\* C33: the list find_editor returns holds each editable surface at most once
C33_EachSurfaceOnce ==
    \A j, k \in 1 .. Len(editors) : j # k => editors[j].el # editors[k].el

\* where run stands from "if editor:" until the strategies have returned
DeliveryPcs ==
    {"deliver", "clip1", "clip2", "clip3", "clip_fail", "choose_typing",
     "type_content", "type_loop", "type_content_batched", "batch_loop",
     "type_formatted_content"}

\* C34: whenever run invokes a delivery strategy, and while the strategy runs,
\* the driver's frame context is the context that holds the editor element,
\* whichever locator produced it (--editor-id, a family selector, the
\* generic lookup, the selection in handle_multiple_editors, a find_editor
\* candidate)
C34_DeliveryInEditorFrame ==
    pc \in DeliveryPcs => (HasEditor(editor) /\ driver_frame = editor_home)

\* a strategy has been called on the body of a frame that find_editor listed
C34_Witness ==
    /\ StrategyCalls # <<>>
    /\ pc \in DeliveryPcs
    /\ Len(editors) = 1
    /\ editor = PageFrame[1]
    /\ driver_frame = PageFrame[1]

\* a step in which save_session was called and the session file does not hold
\* the record it was called to write: the write failed
SaveFailedStep ==
    /\ SavedValues' # SavedValues
    /\ sessionFile' # SavedFile(args, SavedValues'[Len(SavedValues')], password'.text,
                                TRUE, sessionFile)

\* C35: when save_session fails to write the checkpoint, delivery is not
\* aborted: the committed count in memory is the one save_session was called
\* with, a strategy in its loop stays in its loop at the next character or
\* batch, and a strategy at its end returns what it returns when the save
\* succeeds (success after the loop, failure from its exception handler)
C35_Step ==
    SaveFailedStep
        => /\ progress' = SavedValues'[Len(SavedValues')]
           /\ (pc \in {"type_loop", "batch_loop"} /\ EventsOf("ret")' = EventsOf("ret"))
                  => (pc' = pc /\ i' > i /\ surface' = current_html')
           /\ EventsOf("ret")' # EventsOf("ret")
                  => /\ pc' = "after_delivery"
                     /\ success' = (EventsOf("raise")' = EventsOf("raise"))

C35_FailedSaveDoesNotAbort == [][C35_Step]_vars

\* type_content_batched has gone on to its next batch after a save inside the
\* loop left the session file as it was
C35_Witness ==
    /\ pc = "batch_loop"
    /\ i < Len(remaining)
    /\ SavedValues # <<>>
    /\ sessionFile = NoSession

\* the texts of the files of --files, in the order of the list, with the
\* separator between each two of them
RECURSIVE Concatenated(_)
Concatenated(pieces) ==
    IF pieces = <<>> THEN <<>> ELSE Concatenated(SubSeq(pieces, 1, Len(pieces) - 1))
                                    \o pieces[Len(pieces)]

ListedWithSeparator ==
    Concatenated([k \in 1 .. 2 * Len(args.files) - 1 |->
                     IF k % 2 = 1 THEN fs_files[args.files[(k + 1) \div 2]].text
                     ELSE args.file_separator])

SomeFileUnreadable == \E k \in 1 .. Len(args.files) : ~fs_files[args.files[k]].exists

LoadsListedFiles == pc = "load_content" /\ pc' # pc /\ args.files # <<>>

\* C36: load_multiple_files sets the content buffer to the texts of the listed
\* files joined in list order with the configured separator; when a listed
\* file cannot be read, it returns failure with the content buffer unchanged
\* and empty, and run ends there: the page is not navigated to, and no locator
\* and no delivery strategy is called
C36_Step ==
    /\ (LoadsListedFiles /\ ~SomeFileUnreadable)
           => (content' = ListedWithSeparator /\ pc' # "returned")
    /\ (LoadsListedFiles /\ SomeFileUnreadable)
           => (content' = content /\ content = <<>> /\ pc' = "returned")
    /\ (pc = "returned" /\ args.files # <<>> /\ SomeFileUnreadable)
           => (trace = <<>> /\ editor = "none" /\ surface = <<>> /\ vars' = vars)

C36_ListedFilesJoinedOrRunEnds == [][C36_Step]_vars

\* two files were read and joined, and the run has delivered their texts
C36_WitnessJoined ==
    /\ Len(args.files) = 2
    /\ args.files[1] # args.files[2]
    /\ fs_files[args.files[1]].text # <<>>
    /\ content = fs_files[args.files[1]].text \o args.file_separator
                    \o fs_files[args.files[2]].text
    /\ pc = "after_delivery"
    /\ success

\* a listed file could not be read, and the run has returned
C36_WitnessUnreadable ==
    /\ Len(args.files) = 2
    /\ fs_files[args.files[1]].exists
    /\ ~fs_files[args.files[2]].exists
    /\ pc = "returned"

\* the Ctrl+C presses the script has received
CtrlCs == EventsOf("ctrl_c")

\* driver.quit has been called
Quit == EventsOf("quit") # <<>>

\* C37: in a new browser, after a successful delivery, one Ctrl+C ends the
\* script and closes the browser: once that Ctrl+C has arrived, run eventually
\* returns with driver.quit called, and no second Ctrl+C is needed for it
C37_OneInterruptEnds ==
    (~args.use_existing /\ success /\ Len(CtrlCs) = 1)
        ~> (pc = "returned" /\ Quit)

\* the script was interrupted once after a successful delivery, and sleeps in
\* its finally block
C37_WaitsForSecondInterrupt ==
    /\ ~args.use_existing
    /\ success
    /\ CtrlCs = <<CtrlC("keep_open")>>
    /\ pc = "finally"
    /\ ~Quit

====
